---- MODULE Spec2Model ----
(***************************************************************************)
(* A model of the agent runtime: the permission engine                     *)
(* (core/tools/permissions.py), the tool dispatcher (core/tools/__init__), *)
(* the agent loop and session manager (core/agent.py), the scheduler       *)
(* (scheduler/main.py) and the MCP bridge (tools-api/main.py).             *)
(*                                                                         *)
(* Tool names are sequences of words: the string obtained by joining the   *)
(* words with "_".  A built-in name is one word (<<"run_command">>), an    *)
(* MCP name is <<"mcp">> \o server \o tool.                                *)
(***************************************************************************)
EXTENDS Integers, Sequences, FiniteSets, TLC

VARIABLES
    permissions,   \* ToolPermissions.permissions: session type -> config
    permOp,        \* the last check / filter request and its answer
    sessions,      \* SessionManager.sessions: key -> Session
    turn,          \* per run_agent coroutine: its locals and position
    dispatched,    \* per coroutine: the tool calls of the current assistant
                   \* message handled so far, with what the dispatcher did
    lockedAtStart, \* per coroutine: session was at the cap when the turn began
    violations,    \* per session: violation results seen since the last clear
    session_files, \* workspace/<user_id>/SESSION.json: user_id -> contents
    objects,       \* scheduler: the Task objects ever created, by number
    tasks,         \* scheduler: TaskStore.tasks, task id -> object number
    tasksFile,     \* scheduler: TASKS_FILE: the tasks written, by id, with
                   \* the ids whose record does not build a Task, or a torn
                   \* file that does not parse
    now,           \* scheduler: the clock, in minutes
    inflight,      \* scheduler: per object, the execute_task coroutines
                   \* waiting for their outbound call
    nextObj,       \* scheduler: number of the next Task object
    attempts,      \* scheduler: per object, the executions that have ended
    phase,         \* scheduler: "booting" from the start of the process to
                   \* the first pass of scheduler_loop, "first" right after
                   \* that pass, "ticked" right after a later pass,
                   \* "refused" right after a create answered with 400,
                   \* "running" otherwise
    mcpServers,    \* tools-api: the servers of the MCP config file
    mcpTools,      \* tools-api: MCPToolsCache.tools, full name -> entry
    mcpPending,    \* tools-api: requests waiting for fetch_mcp_tools
    mcpCall,       \* the outcome of the last MCP tool call of the dispatcher
    pending_questions, \* bot: the entries of pending_questions, in the order
                   \* of insertion
    asker,         \* per question id: where the ask_user tool that asked it is
    lastMsg,       \* bot: what the message handler did with the last user
                   \* message
    toolsConfig,   \* tools-api: the tool config file, name -> enabled flag
    loadResp,      \* tools-api: the last answer of POST /tools/load
    lastCall,      \* core: the last tool call that the dispatcher was given,
                   \* with what it did
    _tools_cache,  \* core: the cached tool lists, key -> time of the fetch
    _tools_cache_time, \* core: the time of the last fetch that was stored
    cacheClock,    \* core: time.time(), in units of half the TTL
    lastServe      \* core: what the last get_tool_definitions returned

agentVars ==
    <<sessions, turn, dispatched, lockedAtStart, violations, session_files>>
permVars == <<permissions, permOp>>
schedVars ==
    <<objects, tasks, tasksFile, now, inflight, nextObj, attempts, phase>>
mcpVars == <<mcpServers, mcpTools, mcpPending, mcpCall>>
botVars == <<pending_questions, asker, lastMsg>>
regVars == <<toolsConfig, loadResp, lastCall>>
cacheVars == <<_tools_cache, _tools_cache_time, cacheClock, lastServe>>
vars == <<permVars, agentVars, schedVars, mcpVars, botVars, regVars, cacheVars>>

(***************************************************************************)
(* Bounds of the model                                                     *)
(***************************************************************************)
MaxIterations == 2      \* CONFIG.max_iterations (30 in the default config)
MaxBlocked == 2         \* CONFIG.max_blocked_commands (3 in the default config)
MaxHistory == 1         \* CONFIG.max_history (10 in the default config)
MaxContextMessages == 4 \* CONFIG.max_context_messages
CountLimit == 3         \* no violation is injected once a counter is here

N(w) == <<w>>

(***************************************************************************)
(* Permission engine                                                       *)
(***************************************************************************)
SessionTypes == {"main", "group", "sandbox", "userbot"}
ChatTypes == {"private", "main", "group", "supergroup", "sandbox", "channel"}
Sources == {"bot", "userbot"}

TOOL_EXECUTORS ==
    { N(w) : w \in {"run_command", "read_file", "write_file", "edit_file",
                    "delete_file", "search_files", "search_text",
                    "list_directory", "search_web", "fetch_page", "memory",
                    "schedule_task", "manage_tasks", "send_file", "send_dm",
                    "manage_message", "ask_user", "search_tools", "load_tools",
                    "install_skill", "list_skills", "telegram_channel",
                    "telegram_join", "telegram_send", "telegram_history",
                    "telegram_dialogs", "telegram_delete", "telegram_edit",
                    "telegram_resolve"} }

SANDBOX_DENIED ==
    { N(w) : w \in {"send_dm", "manage_message", "schedule_task", "ask_user"} }

\* A config is {mode, tools}; tools is "*" (all = TRUE) or a list (names).
Star == [all |-> TRUE, names |-> {}]
List(S) == [all |-> FALSE, names |-> S]

DEFAULT_PERMISSIONS ==
    [st \in SessionTypes |->
        CASE st = "main" -> [mode |-> "allowlist", tools |-> Star]
          [] st = "group" ->
                [mode |-> "denylist",
                 tools |-> List({N("send_dm"), N("manage_message"),
                                 N("schedule_task")})]
          [] st = "sandbox" ->
                [mode |-> "allowlist",
                 tools |-> List({ N(w) : w \in
                     {"run_command", "read_file", "write_file", "edit_file",
                      "delete_file", "search_files", "search_text",
                      "list_directory", "memory", "manage_tasks"} })]
          [] st = "userbot" ->
                [mode |-> "denylist",
                 tools |-> List({N("send_file"), N("send_dm"),
                                 N("manage_message"), N("ask_user")})]]

\* A mapping that lets the chat type decide before the source.
get_effective_type_ChatFirst(session_type, source) ==
    IF session_type \in {"private", "main"} THEN "main"
    ELSE IF source = "userbot" THEN "userbot"
    ELSE IF session_type \in {"group", "supergroup"} THEN "group"
    ELSE IF session_type = "sandbox" THEN "sandbox"
    ELSE "main"

get_effective_type(session_type, source) ==
    IF source = "userbot" THEN "userbot"
    ELSE IF session_type \in {"private", "main"} THEN "main"
    ELSE IF session_type \in {"group", "supergroup"} THEN "group"
    ELSE IF session_type = "sandbox" THEN "sandbox"
    ELSE "main"

\* The decision of the configured mode, before the sandbox check.
BaseDecision(config, tool_name) ==
    IF config.mode = "allowlist"
    THEN IF config.tools.all
         THEN [allowed |-> TRUE, reason |-> "All tools allowed"]
         ELSE IF tool_name \in config.tools.names
              THEN [allowed |-> TRUE, reason |-> "Tool in allowlist"]
              ELSE [allowed |-> FALSE, reason |-> "Tool not in allowlist"]
    ELSE IF config.mode = "denylist"
    THEN IF config.tools.all
         THEN [allowed |-> FALSE, reason |-> "All tools denied"]
         ELSE IF tool_name \notin config.tools.names
              THEN [allowed |-> TRUE, reason |-> "Tool not in denylist"]
              ELSE [allowed |-> FALSE, reason |-> "Tool in denylist"]
    ELSE [allowed |-> TRUE, reason |-> "Unknown mode, defaulting to allow"]

\* An engine without the sandbox rule.
SandboxCheck_Off(effective_type, tool_name, base) == base

SandboxCheck(effective_type, tool_name, base) ==
    IF effective_type = "sandbox" /\ tool_name \in SANDBOX_DENIED
    THEN [allowed |-> FALSE, reason |-> "never allowed in sandbox"]
    ELSE base

check_permission(tool_name, session_type, source) ==
    LET effective_type == get_effective_type(session_type, source)
        config == permissions[effective_type]
        d == SandboxCheck(effective_type, tool_name,
                          BaseDecision(config, tool_name))
    IN  [allowed |-> d.allowed, reason |-> d.reason, tool |-> tool_name,
         session_type |-> effective_type]

get_allowed_tools(session_type, source) ==
    LET effective_type == get_effective_type(session_type, source)
        config == permissions[effective_type]
        all_tools == TOOL_EXECUTORS
        allowed ==
            IF config.mode = "allowlist"
            THEN IF config.tools.all THEN all_tools
                 ELSE {t \in all_tools : t \in config.tools.names}
            ELSE IF config.mode = "denylist"
            THEN IF config.tools.all THEN {}
                 ELSE {t \in all_tools : t \notin config.tools.names}
            ELSE all_tools
    IN  IF effective_type = "sandbox"
        THEN {t \in allowed : t \notin SANDBOX_DENIED}
        ELSE allowed

RECURSIVE SelectSeq2(_, _)
SelectSeq2(s, S) ==
    IF s = <<>> THEN <<>>
    ELSE IF Head(s) \in S THEN <<Head(s)>> \o SelectSeq2(Tail(s), S)
    ELSE SelectSeq2(Tail(s), S)

\* A filter that also drops the first definition it would keep.
filter_tool_definitions_DropsFirst(definitions, session_type, source) ==
    LET kept == SelectSeq2(definitions, get_allowed_tools(session_type, source))
    IN  IF kept = <<>> THEN kept ELSE Tail(kept)

\* definitions is a list of tool names (a definition is named by its
\* function.name); the result keeps the order of the list.
filter_tool_definitions(definitions, session_type, source) ==
    SelectSeq2(definitions, get_allowed_tools(session_type, source))

(***************************************************************************)
(* Tool dispatcher                                                         *)
(***************************************************************************)
IsPrefix(p, s) == Len(p) <= Len(s) /\ SubSeq(s, 1, Len(p)) = p
Drop(s, n) == SubSeq(s, n + 1, Len(s))

\* The server names execute_tool tries, in this order.
PossibleServers == << <<"google", "workspace">>, <<"docker">>, <<"test">> >>

NoRoute == [found |-> FALSE, server |-> <<>>, tool |-> <<>>]

\* name.startswith("mcp_")
StartsWithMcp(name) == Len(name) >= 2 /\ name[1] = "mcp"

\* The (server_name, tool_name) execute_tool derives from mcp_<...>.
MCPRoute(name) ==
    LET rest == Drop(name, 1)
        hits == {i \in 1..Len(PossibleServers) :
                    /\ IsPrefix(PossibleServers[i], rest)
                    /\ Len(rest) > Len(PossibleServers[i])}
    IN  IF ~StartsWithMcp(name) THEN NoRoute
        ELSE IF hits # {}
        THEN LET i == CHOOSE j \in hits : \A k \in hits : j <= k
             IN  [found |-> TRUE, server |-> PossibleServers[i],
                  tool |-> Drop(rest, Len(PossibleServers[i]))]
        ELSE IF Len(rest) >= 2
        THEN [found |-> TRUE, server |-> <<rest[1]>>, tool |-> Drop(rest, 1)]
        ELSE NoRoute

\* ToolResult.  error is the set of words of the error text ({} for none),
\* loaded is metadata["loaded_tools"] (names of the definitions).
ToolResult(success, output, error, loaded) ==
    [success |-> success, output |-> output, error |-> error, loaded |-> loaded]

\* What the awaited executor (or MCP call) does: it returns a result, it
\* exceeds CONFIG.tool_timeout, or it raises.
Returns(r) == [kind |-> "return", result |-> r]
TimesOut == [kind |-> "timeout", result |-> ToolResult(FALSE, "", {}, <<>>)]
Raises == [kind |-> "raise", result |-> ToolResult(FALSE, "", {}, <<>>)]

\* "builtin" / "mcp": the call is awaited; "denied" / "unknown": execute_tool
\* returns at once without invoking anything.
\* A dispatcher that does not consult the permission engine.
DispatchKind_Unchecked(name, chat_type, source) ==
    IF Len(Drop(name, 1)) >= 1 /\ name[1] = "mcp" /\ Len(name) >= 3 THEN "mcp"
    ELSE IF name \in TOOL_EXECUTORS THEN "builtin"
    ELSE "unknown"

DispatchKind(name, chat_type, source) ==
    IF ~check_permission(name, chat_type, source).allowed THEN "denied"
    ELSE IF MCPRoute(name).found THEN "mcp"
    ELSE IF name \in TOOL_EXECUTORS THEN "builtin"
    ELSE "unknown"

DeniedError(name, perm) ==
    {"Tool", "not", "available", "in", perm.session_type, "sessions", perm.reason}
        \cup {name[i] : i \in 1..Len(name)}

\* A dispatcher that takes a call that timed out or raised for an empty
\* success.
execute_tool_FailureAsSuccess(name, chat_type, source, behaviour) ==
    LET perm == check_permission(name, chat_type, source)
        kind == DispatchKind(name, chat_type, source)
    IN  IF kind = "denied"
        THEN ToolResult(FALSE, "", DeniedError(name, perm), <<>>)
        ELSE IF kind = "unknown"
        THEN ToolResult(FALSE, "", {"Unknown", "tool"}, <<>>)
        ELSE IF behaviour.kind \in {"timeout", "raise"}
        THEN ToolResult(TRUE, "", {}, <<>>)
        ELSE behaviour.result

\* execute_tool(name, args, ctx) given what the awaited call does.
execute_tool(name, chat_type, source, behaviour) ==
    LET perm == check_permission(name, chat_type, source)
        kind == DispatchKind(name, chat_type, source)
    IN  IF kind = "denied"
        THEN ToolResult(FALSE, "", DeniedError(name, perm), <<>>)
        ELSE IF kind = "unknown"
        THEN ToolResult(FALSE, "", {"Unknown", "tool"}, <<>>)
        ELSE IF behaviour.kind = "timeout"
        THEN ToolResult(FALSE, "", {"timed", "out"}, <<>>)
        ELSE IF behaviour.kind = "raise"
        THEN ToolResult(FALSE, "", {"exception"}, <<>>)
        ELSE behaviour.result

(***************************************************************************)
(* Agent loop                                                              *)
(***************************************************************************)
SensitiveTokens ==
    {"secret", "env", "token", "key", "password", "credential", "injection",
     "/etc/passwd", "/etc/shadow", "proc/self", "base64", "exfiltration",
     "fork bomb", "rm -rf"}

\* A classifier that counts every BLOCKED error.
is_security_violation_AnyBlocked(error_msg) == "BLOCKED" \in error_msg

is_security_violation(error_msg) ==
    "BLOCKED" \in error_msg /\ error_msg \cap SensitiveTokens # {}

Msg(role, content, tool_calls, tool_call_id) ==
    [role |-> role, content |-> content, tool_calls |-> tool_calls,
     tool_call_id |-> tool_call_id]

UserMsg(c) == Msg("user", c, <<>>, 0)
AssistantMsg(c, calls) == Msg("assistant", c, calls, 0)
ToolMsg(id, c) == Msg("tool", c, <<>>, id)
SystemMsg == Msg("system", "prompt", <<>>, 0)
NudgeMsg == UserMsg("[system: continue]")

\* len(json.dumps(m)) in units of the model: a message with the long text
\* counts LongSize, every other message counts 1.
LongSize == 7
MsgSize(m) == IF m.content = "Long" THEN LongSize ELSE 1

RECURSIVE TotalSize(_)
TotalSize(h) == IF h = <<>> THEN 0 ELSE MsgSize(Head(h)) + TotalSize(Tail(h))

RECURSIVE PopWhileOver(_, _)
PopWhileOver(h, max_chars) ==
    IF TotalSize(h) > max_chars /\ Len(h) > 2
    THEN PopWhileOver(Tail(h), max_chars)
    ELSE h

\* A trim that keeps one message more than max_msgs.
trim_history_KeepsOneMore(history, max_msgs, max_chars) ==
    LET h1 == IF Len(history) > max_msgs
              THEN SubSeq(history, Len(history) - max_msgs, Len(history))
              ELSE history
    IN  PopWhileOver(h1, max_chars)

trim_history(history, max_msgs, max_chars) ==
    LET h1 == IF Len(history) > max_msgs
              THEN SubSeq(history, Len(history) - max_msgs + 1, Len(history))
              ELSE history
    IN  PopWhileOver(h1, max_chars)

HistoryMaxChars == 6    \* the 30000 of the epilogue's trim, in model units
ContextMaxChars == 8    \* the 50000 of the prologue's trim, in model units

SessionKeys == {<<1, 1>>, <<1, 2>>}    \* (user_id, chat_id)
Turns == {"t1", "t2"}
NoKey == <<0, 0>>

\* The request an adapter sends for a chat: chat 1 is the user's private
\* chat with the bot, chat 2 is a group.
ContextOf(key) ==
    [chat_type |-> IF key[2] = 1 THEN "private" ELSE "group", source |-> "bot"]

NoSession == [exists |-> FALSE, history |-> <<>>, blocked_count |-> 0,
              source |-> "bot"]

\* SessionManager.get: the session at key, created when there is none.
SessionGet(key) ==
    IF sessions[key].exists THEN sessions[key]
    ELSE [exists |-> TRUE, history |-> <<>>, blocked_count |-> 0,
          source |-> "bot"]

BASE_TOOL_NAMES ==
    << N("run_command"), N("read_file"), N("write_file"), N("edit_file"),
       N("list_directory"), N("search_files"), N("search_text"), N("memory"),
       N("manage_tasks"), N("search_tools"), N("load_tools"), N("search_web"),
       N("fetch_page"), N("telegram_channel"), N("telegram_send"),
       N("telegram_dialogs"), N("telegram_history"), N("telegram_join") >>

get_bot_only_tools ==
    << N("send_file"), N("send_dm"), N("manage_message"), N("ask_user") >>

TOOL_DEFINITIONS ==
    << N("run_command"), N("read_file"), N("write_file"), N("edit_file"),
       N("delete_file"), N("search_files"), N("search_text"),
       N("list_directory"), N("search_web"), N("fetch_page"), N("memory"),
       N("schedule_task"), N("manage_tasks"), N("send_file"), N("send_dm"),
       N("manage_message"), N("ask_user") >>

\* get_tool_definitions with LAZY_TOOL_LOADING at its default: the base
\* tools of the Tools API plus the bot-only tools, or the local fallback.
get_tool_definitions(source, api_ok) ==
    IF api_ok
    THEN BASE_TOOL_NAMES \o (IF source = "bot" THEN get_bot_only_tools ELSE <<>>)
    ELSE TOOL_DEFINITIONS

\* Whether the Tools API answers get_tool_definitions: it does for the first
\* coroutine, and the second one falls back on TOOL_DEFINITIONS.
ApiOutcomes(t) == IF t = "t2" THEN {FALSE} ELSE {TRUE}

McpDockerPs == <<"mcp", "docker", "ps">>

\* The tool-call lists an assistant message may carry.  The replies the
\* second coroutine is driven with are fewer.
CallLists(t) ==
    IF t = "t1"
    THEN { <<N("send_dm"), N("run_command")>>,
           <<N("load_tools"), McpDockerPs, N("nope")>> }
    ELSE { <<N("run_command"), N("send_dm")>> }

MkCalls(names) == [i \in 1..Len(names) |-> [id |-> i, name |-> names[i]]]

LLMReply(kind, content, calls, reasoning) ==
    [kind |-> kind, content |-> content, calls |-> calls, reasoning |-> reasoning]

LLMResponses(t) ==
    (IF t = "t1"
     THEN { LLMReply("error", "", <<>>, FALSE),
            LLMReply("no_choices", "", <<>>, FALSE),
            LLMReply("message", "", <<>>, TRUE),
            LLMReply("message", "", <<>>, FALSE) }
     ELSE {})
    \cup { LLMReply("message", "Hi", <<>>, FALSE),
           LLMReply("message", "Long", <<>>, FALSE) }
    \cup { LLMReply("message", "", MkCalls(l), FALSE) : l \in CallLists(t) }

OkResult == ToolResult(TRUE, "out", {}, <<>>)
ViolationResult == ToolResult(FALSE, "", {"BLOCKED", "secret", "env"}, <<>>)
PrivilegeResult == ToolResult(FALSE, "", {"BLOCKED", "sudo", "capability"}, <<>>)
FailResult == ToolResult(FALSE, "", {"failed", "key", "missing"}, <<>>)
LoadedResult == ToolResult(TRUE, "out", {}, <<N("schedule_task")>>)

\* What the awaited executor of a tool may do.
Behaviours(name) ==
    IF name = N("run_command")
    THEN {Returns(OkResult), Returns(ViolationResult), Returns(PrivilegeResult),
          TimesOut}
    ELSE IF name = N("load_tools") THEN {Returns(LoadedResult)}
    ELSE IF name = N("send_dm") THEN {Returns(OkResult)}
    ELSE {Returns(OkResult), Returns(FailResult), Raises}

AllBehaviours ==
    UNION {Behaviours(n) : n \in {N("run_command"), N("load_tools"),
                                  N("send_dm"), McpDockerPs}}

IdleTurn ==
    [pc |-> "idle", key |-> NoKey, chat_type |-> "private", source |-> "bot",
     messages |-> <<>>, tool_definitions |-> <<>>, iteration |-> 0,
     tool_calls |-> <<>>, idx |-> 0, final_response |-> "", ret |-> "none"]

\* A loop head that lets one more iteration through.
LoopHead_OneMore(tr) ==
    IF tr.iteration <= MaxIterations
    THEN [tr EXCEPT !.iteration = @ + 1, !.pc = "llm"]
    ELSE [tr EXCEPT !.pc = "epilogue", !.ret = "cap"]

\* The head of "while iteration < CONFIG.max_iterations": the next LLM call,
\* or the end of the loop (ret remembers that the loop ran out).
LoopHead(tr) ==
    IF tr.iteration < MaxIterations
    THEN [tr EXCEPT !.iteration = @ + 1, !.pc = "llm"]
    ELSE [tr EXCEPT !.pc = "epilogue", !.ret = "cap"]

\* A security violation as the specification words it: an error text with
\* BLOCKED together with a sensitive token.
ViolationText(err) == "BLOCKED" \in err /\ \E tok \in SensitiveTokens : tok \in err

\* A handler of results that gives the turn up on any failed tool call.
HandleResult_AbortOnFailure(tr, bc, call, result, kind) ==
    [tr |-> IF result.success
            THEN [tr EXCEPT !.messages = Append(@, ToolMsg(call.id, "out"))]
            ELSE [tr EXCEPT !.pc = "done", !.ret = "tool_error"],
     bc |-> bc,
     ev |-> [id |-> call.id, name |-> call.name, kind |-> kind,
             allowed |-> TRUE, violation |-> FALSE,
             failed |-> ~result.success, error |-> result.error,
             counted |-> FALSE, answered |-> result.success,
             loaded |-> result.loaded]]

\* Lines 649-679 of the loop body for one result: count a violation, return
\* the lock message at the cap, else append the tool-role message.
HandleResult(tr, bc, call, result, kind) ==
    LET viol == is_security_violation(result.error)
        bc1 == IF viol THEN bc + 1 ELSE bc
        lock == viol /\ bc1 >= MaxBlocked
        output == IF result.success
                  THEN (IF result.output = "" THEN "(empty)" ELSE result.output)
                  ELSE "Error"
        ev == [id |-> call.id, name |-> call.name, kind |-> kind,
               allowed |-> check_permission(call.name, tr.chat_type,
                                            tr.source).allowed,
               violation |-> ViolationText(result.error),
               failed |-> ~result.success, error |-> result.error,
               counted |-> bc1 # bc, answered |-> ~lock,
               loaded |-> result.loaded]
    IN  [tr |-> IF lock THEN [tr EXCEPT !.pc = "done", !.ret = "lock"]
                ELSE [tr EXCEPT !.messages =
                                    Append(@, ToolMsg(call.id, output))],
         bc |-> bc1, ev |-> ev]

\* The for loop over tool_calls from call i on, up to the next await: calls
\* that execute_tool answers at once are handled in the same step.
RECURSIVE Advance(_, _, _, _)
Advance(tr, bc, evs, i) ==
    IF i > Len(tr.tool_calls)
    THEN [tr |-> LoopHead(tr), bc |-> bc, evs |-> evs]
    ELSE LET call == tr.tool_calls[i]
             kind == DispatchKind(call.name, tr.chat_type, tr.source)
         IN  IF kind \in {"builtin", "mcp"}
             THEN [tr |-> [tr EXCEPT !.pc = "tool", !.idx = i], bc |-> bc,
                   evs |-> evs]
             ELSE LET h == HandleResult(tr, bc, call,
                              execute_tool(call.name, tr.chat_type, tr.source,
                                           Raises), kind)
                  IN  IF h.tr.pc = "done"
                      THEN [tr |-> h.tr, bc |-> h.bc, evs |-> Append(evs, h.ev)]
                      ELSE Advance(h.tr, h.bc, Append(evs, h.ev), i + 1)

MaxOf(S) == CHOOSE x \in S : \A y \in S : y <= x

\* Lines 695-722: the reply made up from the tool results when the loop left
\* none.
Fallback(tr) ==
    LET m == tr.messages
        toolIdx == {i \in 1..Len(m) : m[i].role = "tool"}
    IN  IF tr.final_response # "" \/ tr.iteration <= 1 THEN tr.final_response
        ELSE IF toolIdx = {} THEN ""
        ELSE IF m[MaxOf(toolIdx)].content = "Error" THEN "error shown"
        ELSE IF \E i \in toolIdx : m[i].content \notin {"Error", "(empty)"}
        THEN "done"
        ELSE ""

\* An epilogue that appends the assistant entry also for an empty reply.
EpilogueAppend_AlwaysAssistant(history, final_response) ==
    history \o <<UserMsg("Hello"), AssistantMsg(final_response, <<>>)>>

\* Lines 724-727: the user entry, and the assistant entry if final_response
\* is not empty.
EpilogueAppend(history, final_response) ==
    history \o <<UserMsg("Hello")>>
            \o (IF final_response # ""
                THEN <<AssistantMsg(final_response, <<>>)>> ELSE <<>>)

\* Lines 724-730: session.history after the epilogue for a final_response.
EpilogueHistory(history, final_response) ==
    trim_history(EpilogueAppend(history, final_response),
                 MaxHistory * 2, HistoryMaxChars)

(***************************************************************************)
(* SESSION.json, the snapshot of a session                                 *)
(***************************************************************************)
\* Session.cwd as SessionManager.get sets it: the workspace directory of the
\* user, whatever the chat.
Cwd(key) == key[1]

NoFile == [exists |-> FALSE, history |-> <<>>]

SnapshotKeep == 10      \* display_history[-10:]

LastEntries(s, n) ==
    IF Len(s) <= n THEN s ELSE SubSeq(s, Len(s) - n + 1, Len(s))

\* The display history: one entry per user message, holding the dated
\* content and, when the next message is an assistant message, its content;
\* every other message is skipped.
RECURSIVE display_history(_)
display_history(history) ==
    IF history = <<>> THEN <<>>
    ELSE IF Head(history).role # "user" THEN display_history(Tail(history))
    ELSE IF Len(history) >= 2 /\ history[2].role = "assistant"
         THEN <<[user |-> <<"[date]", history[1].content>>,
                 assistant |-> <<history[2].content>>]>>
              \o display_history(Tail(Tail(history)))
         ELSE <<[user |-> <<"[date]", history[1].content>>,
                 assistant |-> <<>>]>>
              \o display_history(Tail(history))

\* save_session_to_file: the file in the session's directory is overwritten
\* with the last entries of the display history.
save_session_to_file(files, key, history) ==
    [files EXCEPT ![Cwd(key)] =
        [exists |-> TRUE,
         history |-> LastEntries(display_history(history), SnapshotKeep)]]

(***************************************************************************)
(* run_agent as a state machine: one step per stretch between two awaits   *)
(***************************************************************************)
CountNew(old, new) ==
    Cardinality({i \in (Len(old) + 1)..Len(new) : new[i].violation})

\* A variant in which every return of run_agent, also one from inside the
\* loop, records the turn in the history and the snapshot.
SavesTurn_OnEveryReturn(tr) == tr.pc \in {"epilogue", "done"}

\* Lines 724-733 run for a stretch that ends in tr: only when the loop was
\* left by break or by its condition, never after a return inside the loop.
SavesTurn(tr) == tr.pc = "epilogue"

\* The state after a stretch of run_agent that ends in out.tr: at the end of
\* the loop the epilogue runs in the same stretch.
Commit(t, out) ==
    LET tr == out.tr
        key == tr.key
        fin == Fallback(tr)
    IN  /\ turn' = [turn EXCEPT ![t] =
                IF tr.pc = "epilogue"
                THEN [tr EXCEPT !.pc = "done",
                                !.ret = IF tr.ret = "cap" THEN "cap" ELSE "final",
                                !.final_response = fin]
                ELSE tr]
        /\ sessions' = [sessions EXCEPT ![key] =
                IF SavesTurn(tr)
                THEN [@ EXCEPT !.blocked_count = out.bc,
                               !.history = EpilogueHistory(@, fin)]
                ELSE [@ EXCEPT !.blocked_count = out.bc]]
        /\ dispatched' = [dispatched EXCEPT ![t] = out.evs]
        /\ violations' = [violations EXCEPT ![key] =
                              @ + CountNew(dispatched[t], out.evs)]
        /\ session_files' =
                IF SavesTurn(tr)
                THEN save_session_to_file(session_files, key,
                                          sessions'[key].history)
                ELSE session_files

\* run_agent up to the first await: sessions.get, session.source = source.
StartTurn(t, key) ==
    /\ turn[t].pc = "idle"
    /\ LET ctx == ContextOf(key) IN
       /\ sessions' = [sessions EXCEPT ![key] =
                           [SessionGet(key) EXCEPT !.source = ctx.source]]
       /\ turn' = [turn EXCEPT ![t] =
                       [IdleTurn EXCEPT !.pc = "prologue", !.key = key,
                                        !.chat_type = ctx.chat_type,
                                        !.source = ctx.source]]
    /\ lockedAtStart' = [lockedAtStart EXCEPT ![t] =
                             SessionGet(key).blocked_count >= MaxBlocked]
    /\ dispatched' = [dispatched EXCEPT ![t] = <<>>]
    /\ UNCHANGED <<violations, session_files, permVars, botVars, regVars,
                   cacheVars, schedVars, mcpVars>>

\* The tool definitions and the skill mentions have arrived: the tool list is
\* filtered, messages is composed and the first LLM call is made.
Prologue(t, api_ok) ==
    /\ turn[t].pc = "prologue"
    /\ LET tr == turn[t]
           defs == filter_tool_definitions(
                       get_tool_definitions(tr.source, api_ok),
                       tr.chat_type, tr.source)
           msgs == <<SystemMsg>> \o
                   trim_history(sessions[tr.key].history \o <<UserMsg("Hello")>>,
                                MaxContextMessages, ContextMaxChars)
           tr1 == [tr EXCEPT !.tool_definitions = defs, !.messages = msgs]
       IN  Commit(t, [tr |-> LoopHead(tr1),
                      bc |-> sessions[tr.key].blocked_count,
                      evs |-> dispatched[t]])
    /\ UNCHANGED <<lockedAtStart, permVars, botVars, regVars, cacheVars, schedVars, mcpVars>>

\* call_llm has returned r: lines 581-693 up to the next await.
LLMResponse(t, r) ==
    /\ turn[t].pc = "llm"
    /\ r \in LLMResponses(t)
    /\ LET tr == turn[t]
           bc == sessions[tr.key].blocked_count
           tr1 == [tr EXCEPT !.messages =
                                 Append(@, AssistantMsg(r.content, r.calls)),
                             !.tool_calls = r.calls, !.idx = 0]
       IN  IF r.kind = "error"
           THEN Commit(t, [tr |-> [tr EXCEPT !.pc = "done", !.ret = "llm_error"],
                           bc |-> bc, evs |-> dispatched[t]])
           ELSE IF r.kind = "no_choices"
           THEN Commit(t, [tr |-> [tr EXCEPT !.pc = "done", !.ret = "no_choices"],
                           bc |-> bc, evs |-> dispatched[t]])
           ELSE IF r.content = "" /\ r.calls = <<>>
           THEN IF r.reasoning
                THEN Commit(t, [tr |-> LoopHead([tr1 EXCEPT !.messages =
                                                     Append(@, NudgeMsg)]),
                                bc |-> bc, evs |-> <<>>])
                ELSE Commit(t, [tr |-> [tr1 EXCEPT !.pc = "epilogue"],
                                bc |-> bc, evs |-> <<>>])
           ELSE IF r.calls # <<>>
           THEN Commit(t, Advance(tr1, bc, <<>>, 1))
           ELSE Commit(t, [tr |-> [tr1 EXCEPT !.final_response = r.content,
                                              !.pc = "epilogue"],
                           bc |-> bc, evs |-> <<>>])
    /\ UNCHANGED <<lockedAtStart, permVars, botVars, regVars, cacheVars, schedVars, mcpVars>>

\* The awaited executor or MCP call of tool_calls[idx] has ended with b.
ToolReturn(t, b) ==
    /\ turn[t].pc = "tool"
    /\ LET tr == turn[t]
           call == tr.tool_calls[tr.idx]
           bc == sessions[tr.key].blocked_count
           kind == DispatchKind(call.name, tr.chat_type, tr.source)
           h == HandleResult(tr, bc, call,
                    execute_tool(call.name, tr.chat_type, tr.source, b), kind)
       IN  /\ b \in Behaviours(call.name)
           /\ is_security_violation(b.result.error) => bc < CountLimit
           /\ IF h.tr.pc = "done"
              THEN Commit(t, [tr |-> h.tr, bc |-> h.bc,
                              evs |-> Append(dispatched[t], h.ev)])
              ELSE Commit(t, Advance(h.tr, h.bc, Append(dispatched[t], h.ev),
                                     tr.idx + 1))
    /\ UNCHANGED <<lockedAtStart, permVars, botVars, regVars, cacheVars, schedVars, mcpVars>>

\* SessionManager.clear of an existing session.
Clear(key) ==
    /\ sessions[key].exists
    /\ sessions' = [sessions EXCEPT ![key] =
                        [@ EXCEPT !.history = <<>>, !.blocked_count = 0]]
    /\ violations' = [violations EXCEPT ![key] = 0]
    /\ lockedAtStart' = [t \in Turns |->
                            IF turn[t].key = key THEN FALSE ELSE lockedAtStart[t]]
    /\ UNCHANGED <<turn, dispatched, session_files, permVars, botVars, regVars,
                   cacheVars, schedVars, mcpVars>>


(***************************************************************************)
(* The permission engine on its own: admin updates, checks and filters     *)
(***************************************************************************)
NoPermOp ==
    [op |-> "none", tool |-> <<>>, chat_type |-> "", source |-> "",
     defs |-> <<>>, kept |-> <<>>,
     result |-> [allowed |-> FALSE, reason |-> "", tool |-> <<>>,
                 session_type |-> ""]]

ToolListMenu == {Star, List({N("run_command"), N("schedule_task")})}

ProbeTools == {N("send_dm"), N("run_command"), McpDockerPs}

ProbeDefinitions ==
    { <<N("send_dm"), N("run_command"), McpDockerPs, N("send_dm")>> }

\* The (chat_type, source) pairs that checks and filters are asked about.
ProbeContexts ==
    (ChatTypes \X {"bot"}) \cup {<<"private", "userbot">>, <<"sandbox", "userbot">>}

\* ToolPermissions.__init__: the defaults, updated by the override file when
\* there is one (here: a file that gives sandbox a mode the engine does not
\* know).
LoadedPermissions ==
    {DEFAULT_PERMISSIONS,
     [DEFAULT_PERMISSIONS EXCEPT !["sandbox"].mode = "readonly"]}

\* update_permission(session_type, mode, tools); "" and None stand for an
\* argument that is not given.
None == [all |-> FALSE, names |-> {<<"None">>}]

update_permission(perms, session_type, mode, tools) ==
    IF mode # "" /\ mode \notin {"allowlist", "denylist"} THEN perms
    ELSE LET p1 == IF mode # ""
                   THEN [perms EXCEPT ![session_type].mode = mode] ELSE perms
         IN  IF tools # None
             THEN [p1 EXCEPT ![session_type].tools = tools] ELSE p1

UpdatePermission(session_type, mode, tools) ==
    /\ permissions' = update_permission(permissions, session_type, mode, tools)
    /\ permOp' = NoPermOp
    /\ UNCHANGED <<agentVars, schedVars, mcpVars, botVars, regVars, cacheVars>>

CheckTool(tool, chat_type, source) ==
    /\ permOp' = [op |-> "check", tool |-> tool, chat_type |-> chat_type,
                  source |-> source, defs |-> <<>>, kept |-> <<>>,
                  result |-> check_permission(tool, chat_type, source)]
    /\ UNCHANGED <<permissions, agentVars, schedVars, mcpVars, botVars, regVars, cacheVars>>

FilterTools(defs, chat_type, source) ==
    /\ permOp' = [op |-> "filter", tool |-> <<>>, chat_type |-> chat_type,
                  source |-> source, defs |-> defs,
                  kept |-> filter_tool_definitions(defs, chat_type, source),
                  result |-> check_permission(<<>>, chat_type, source)]
    /\ UNCHANGED <<permissions, agentVars, schedVars, mcpVars, botVars, regVars, cacheVars>>


(***************************************************************************)
(* Scheduler (scheduler/main.py).  Time is counted in minutes.  A Task is  *)
(* an object: the store maps ids to objects, and an execute_task coroutine *)
(* keeps its object also after the store has dropped it.                   *)
(***************************************************************************)
MaxTime == 1        \* the clock stops here
MaxCreates == 2     \* Task objects created in a run
MaxInFlight == 2    \* execute_task coroutines alive at a time
MaxRuns == 2        \* executions started per Task object
MaxUserTasks == 1   \* the 20 of create_task, in model units


Users == {1, 2}
RandomHex == {"a"}
TaskIds == (0..MaxTime) \X RandomHex
Objs == 1..MaxCreates
NoRun == 0 - 1      \* last_run = None

\* A Task object that nothing refers to any more.
Freed ==
    [id |-> <<0, "">>, user_id |-> 0, task_type |-> "", content |-> "",
     execute_at |-> 0, recurring |-> FALSE, interval_minutes |-> 0,
     last_run |-> NoRun, run_count |-> 0, enabled |-> FALSE]

\* TaskCreate bodies sent to POST /tasks.
TaskCreate(user_id, task_type, delay_minutes, recurring, interval_minutes) ==
    [user_id |-> user_id, task_type |-> task_type, content |-> "c1",
     delay_minutes |-> delay_minutes, recurring |-> recurring,
     interval_minutes |-> interval_minutes]

CreateMenu ==
    { TaskCreate(1, "message", 0, FALSE, 60),
      TaskCreate(1, "message", 0, TRUE, 0),
      TaskCreate(1, "agent", 1, FALSE, 60),
      TaskCreate(2, "agent", 0, TRUE, 1) }

\* TaskUpdate bodies sent to PUT /tasks/{id}: has_x tells whether x is given.
TaskUpdate(has_enabled, enabled, has_content, content, has_interval, interval) ==
    [has_enabled |-> has_enabled, enabled |-> enabled,
     has_content |-> has_content, content |-> content,
     has_interval |-> has_interval, interval_minutes |-> interval]

UpdateMenu ==
    { TaskUpdate(TRUE, FALSE, FALSE, "", FALSE, 0),
      TaskUpdate(TRUE, TRUE, FALSE, "", TRUE, 0) }

\* asdict of the tasks of the store: what _save writes.
StoreView(objs, tk) == [id \in DOMAIN tk |-> objs[tk[id]]]

\* TASKS_FILE holding the tasks tk, and TASKS_FILE after a write that broke
\* off: write_text truncates the file before it writes.
FileOf(tk) == [torn |-> FALSE, tasks |-> tk, invalid |-> {}]
TornFile == [torn |-> TRUE, tasks |-> << >>, invalid |-> {}]

\* What a call of _save does to the file: the write succeeds, it fails
\* before the file is opened (mkdir, open), or it breaks off after the
\* truncation; _save logs the exception and returns.
SaveOutcomes == {"written", "unchanged", "torn"}

_save(objs, tk, w) ==
    IF w = "written" THEN FileOf(StoreView(objs, tk))
    ELSE IF w = "unchanged" THEN tasksFile
    ELSE TornFile

\* A handler whose call of _save ends with w; w is "written" for a handler
\* that does not save.  A write fails only when the one before it succeeded.
Faults(w) ==
    w # "written" => tasksFile = FileOf(StoreView(objects, tasks))

get_user_tasks(user_id) ==
    {id \in DOMAIN tasks : objects[tasks[id]].user_id = user_id}

\* A due set that forgets the enabled flag.
get_due_tasks_IgnoresEnabled ==
    {id \in DOMAIN tasks : objects[tasks[id]].execute_at <= now}

get_due_tasks ==
    {id \in DOMAIN tasks : /\ objects[tasks[id]].enabled
                           /\ objects[tasks[id]].execute_at <= now}

RECURSIVE SumOver(_, _)
SumOver(f, S) ==
    IF S = {} THEN 0
    ELSE LET x == CHOOSE y \in S : TRUE IN f[x] + SumOver(f, S \ {x})

Remove(tk, id) == [i \in DOMAIN tk \ {id} |-> tk[i]]

\* The objects that the store or a coroutine still refers to keep their
\* value; the others are garbage.
Collect(objs, tk, infl) ==
    [o \in Objs |-> IF infl[o] > 0 \/ \E id \in DOMAIN tk : tk[id] = o
                    THEN objs[o] ELSE Freed]

CollectCount(att, tk, infl) ==
    [o \in Objs |-> IF infl[o] > 0 \/ \E id \in DOMAIN tk : tk[id] = o
                    THEN att[o] ELSE 0]

\* The store after a handler: objs and tk in memory, file on disk.
StoreBecomes(objs, tk, infl, att, file) ==
    /\ objects' = Collect(objs, tk, infl)
    /\ tasks' = tk
    /\ inflight' = infl
    /\ attempts' = CollectCount(att, tk, infl)
    /\ tasksFile' = file

\* A request or the end of an execution: startup() has created the loop
\* and its first pass has run before anything else is served.
Served ==
    /\ phase # "booting"
    /\ phase' = "running"

\* A limit check that lets a user with MaxUserTasks tasks create one more.
AtLimit_OffByOne(user_id) ==
    Cardinality(get_user_tasks(user_id)) > MaxUserTasks

\* len(user_tasks) >= 20
AtLimit(user_id) == Cardinality(get_user_tasks(user_id)) >= MaxUserTasks

\* POST /tasks.
CreateTask(data, r, w) ==
    /\ phase # "booting"
    /\ phase' = IF AtLimit(data.user_id) THEN "refused" ELSE "running"
    /\ Faults(w)
    /\ IF AtLimit(data.user_id)
       THEN /\ w = "written"
            /\ UNCHANGED <<objects, tasks, tasksFile, inflight, nextObj,
                           attempts>>
       ELSE /\ nextObj <= MaxCreates
            /\ LET id == <<now, r>>
                   task == [id |-> id, user_id |-> data.user_id,
                            task_type |-> data.task_type,
                            content |-> data.content,
                            execute_at |-> now + data.delay_minutes,
                            recurring |-> data.recurring,
                            interval_minutes |->
                                IF data.recurring /\ data.interval_minutes < 1
                                THEN 1 ELSE data.interval_minutes,
                            last_run |-> NoRun, run_count |-> 0,
                            enabled |-> TRUE]
                   objs == [objects EXCEPT ![nextObj] = task]
                   tk == (id :> nextObj) @@ tasks
               IN  StoreBecomes(objs, tk, inflight, attempts,
                                _save(objs, tk, w))
            /\ nextObj' = nextObj + 1
    /\ UNCHANGED <<now, permVars, botVars, regVars, cacheVars, agentVars, mcpVars>>

\* PUT /tasks/{task_id}.
UpdateTask(id, data, w) ==
    /\ Served
    /\ Faults(w)
    /\ IF id \notin DOMAIN tasks
       THEN /\ w = "written"
            /\ UNCHANGED <<objects, tasks, tasksFile, inflight, attempts>>
       ELSE /\ LET o == tasks[id]
                   t1 == IF data.has_enabled
                         THEN [objects[o] EXCEPT !.enabled = data.enabled]
                         ELSE objects[o]
                   t2 == IF data.has_content
                         THEN [t1 EXCEPT !.content = data.content] ELSE t1
                   t3 == IF data.has_interval
                         THEN [t2 EXCEPT !.interval_minutes =
                                  IF data.interval_minutes < 1 THEN 1
                                  ELSE data.interval_minutes]
                         ELSE t2
                   objs == [objects EXCEPT ![o] = t3]
               IN  StoreBecomes(objs, tasks, inflight, attempts,
                                _save(objs, tasks, w))
    /\ UNCHANGED <<now, nextObj, permVars, botVars, regVars, cacheVars, agentVars,
                   mcpVars>>

\* DELETE /tasks/{task_id}?user_id=; user_id 0 is "not given".
DeleteTask(id, user_id, w) ==
    /\ Served
    /\ Faults(w)
    /\ IF id \notin DOMAIN tasks
       THEN /\ w = "written"
            /\ UNCHANGED <<objects, tasks, tasksFile, inflight, attempts>>
       ELSE IF user_id # 0 /\ objects[tasks[id]].user_id # user_id
       THEN /\ w = "written"
            /\ UNCHANGED <<objects, tasks, tasksFile, inflight, attempts>>
       ELSE /\ LET tk == Remove(tasks, id)
               IN  StoreBecomes(objects, tk, inflight, attempts,
                                _save(objects, tk, w))
    /\ UNCHANGED <<now, nextObj, permVars, botVars, regVars, cacheVars, agentVars,
                   mcpVars>>

\* asyncio.create_task(execute_task(task)): the coroutine runs to its
\* outbound POST as soon as the creating stretch yields.
CanStart(o, n) ==
    /\ SumOver(inflight, Objs) + n <= MaxInFlight
    /\ attempts[o] + inflight[o] < MaxRuns
    /\ objects[o].run_count + inflight[o] < MaxRuns

\* POST /tasks/{task_id}/run.
RunTaskNow(id) ==
    /\ Served
    /\ IF id \notin DOMAIN tasks
       THEN /\ UNCHANGED inflight
       ELSE /\ CanStart(tasks[id], 1)
            /\ inflight' = [inflight EXCEPT ![tasks[id]] = @ + 1]
    /\ UNCHANGED <<objects, tasks, tasksFile, now, nextObj, attempts,
                   permVars, botVars, regVars, cacheVars, agentVars,
                   mcpVars>>

\* tool_schedule_task, action "cancel", called in a turn of user_id:
\* DELETE /tasks/{task_id}?user_id={ctx.user_id}.
schedule_task_cancel(user_id, task_id) ==
    DeleteTask(task_id, user_id, "written")

\* tool_schedule_task, action "run", called in a turn of user_id:
\* POST /tasks/{task_id}/run, which carries no user.
schedule_task_run(user_id, task_id) == RunTaskNow(task_id)

\* A loop that waits for the executions it started before its next pass.
Tick_AwaitsExecutions ==
    /\ \A o \in Objs : inflight[o] = 0
    /\ LET due == get_due_tasks
       IN  /\ \A id \in due : CanStart(tasks[id], Cardinality(due))
           /\ inflight' = [o \in Objs |->
                  IF \E id \in due : tasks[id] = o
                  THEN inflight[o] + 1 ELSE inflight[o]]
    /\ phase' = IF phase = "booting" THEN "first" ELSE "ticked"
    /\ UNCHANGED <<objects, tasks, tasksFile, now, nextObj, attempts,
                   permVars, botVars, regVars, cacheVars, agentVars, mcpVars>>

\* One pass of scheduler_loop: an execution is started for every due task.
Tick ==
    /\ LET due == get_due_tasks
       IN  /\ \A id \in due : CanStart(tasks[id], Cardinality(due))
           /\ inflight' = [o \in Objs |->
                  IF \E id \in due : tasks[id] = o
                  THEN inflight[o] + 1 ELSE inflight[o]]
    /\ phase' = IF phase = "booting" THEN "first" ELSE "ticked"
    /\ UNCHANGED <<objects, tasks, tasksFile, now, nextObj, attempts,
                   permVars, botVars, regVars, cacheVars, agentVars, mcpVars>>

\* The outbound call of an execution of object o has ended: with a response
\* (status 200 or another) or by raising (transport error, timeout).
ExecuteTaskEnds(o, outcome, w) ==
    /\ inflight[o] > 0
    /\ Served
    /\ Faults(w)
    /\ LET infl == [inflight EXCEPT ![o] = @ - 1]
           att == [attempts EXCEPT ![o] = @ + 1]
           task == objects[o]
       IN  IF outcome = "raise"
           THEN /\ w = "written"
                /\ StoreBecomes(objects, tasks, infl, att, tasksFile)
           ELSE LET t1 == [task EXCEPT !.last_run = now, !.run_count = @ + 1]
                IN  IF t1.recurring /\ t1.interval_minutes > 0
                    THEN LET objs == [objects EXCEPT ![o] =
                                 [t1 EXCEPT !.execute_at =
                                      now + t1.interval_minutes]]
                         IN  StoreBecomes(objs, tasks, infl, att,
                                          _save(objs, tasks, w))
                    ELSE LET objs == [objects EXCEPT ![o] = t1]
                         IN  IF task.id \in DOMAIN tasks
                             THEN StoreBecomes(objs, Remove(tasks, task.id),
                                      infl, att,
                                      _save(objs, Remove(tasks, task.id), w))
                             ELSE /\ w = "written"
                                  /\ StoreBecomes(objs, tasks, infl, att,
                                                  tasksFile)
    /\ UNCHANGED <<now, nextObj, permVars, botVars, regVars, cacheVars,
                   agentVars, mcpVars>>

\* A minute passes.
AdvanceTime ==
    /\ now < MaxTime
    /\ Served
    /\ now' = now + 1
    /\ UNCHANGED <<objects, tasks, tasksFile, inflight, nextObj, attempts,
                   permVars, botVars, regVars, cacheVars,
                   agentVars, mcpVars>>

\* The ids of a set in some fixed order.
RECURSIVE SeqOf(_)
SeqOf(S) ==
    IF S = {} THEN << >>
    ELSE LET x == CHOOSE y \in S : TRUE IN <<x>> \o SeqOf(S \ {x})

\* TaskStore._load: none when the file does not parse; otherwise the records
\* are added one by one, and the first that does not build a Task ends the
\* load with the tasks before it in the store.
_load(file) ==
    IF file.torn THEN << >>
    ELSE LET ids == SeqOf(DOMAIN file.tasks)
             bad == {i \in 1..Len(ids) : ids[i] \in file.invalid}
             kept == {ids[i] : i \in {j \in 1..Len(ids) :
                                          \A b \in bad : j < b}}
         IN  [id \in kept |-> file.tasks[id]]

\* TASKS_FILE is damaged from outside the service: it no longer parses
\* (S empty), or the records of the ids in S no longer build a Task.
DamageFile(S) ==
    /\ ~tasksFile.torn /\ tasksFile.invalid = {}
    /\ S \subseteq DOMAIN tasksFile.tasks
    /\ tasksFile' = IF S = {} THEN TornFile
                    ELSE [tasksFile EXCEPT !.invalid = S]
    /\ UNCHANGED <<objects, tasks, now, inflight, nextObj, attempts, phase,
                   permVars, botVars, regVars, cacheVars, agentVars, mcpVars>>

\* The process is stopped and started again: the executions in flight are
\* gone, store = TaskStore() loads the file, and scheduler_loop begins.
Restart ==
    /\ LET loaded == _load(tasksFile)
           ids == SeqOf(DOMAIN loaded)
       IN  /\ Len(ids) <= MaxCreates
           /\ tasks' = [id \in DOMAIN loaded |->
                           CHOOSE i \in 1..Len(ids) : ids[i] = id]
           /\ objects' = [o \in Objs |->
                             IF o <= Len(ids) THEN loaded[ids[o]] ELSE Freed]
           /\ nextObj' = Len(ids) + 1
    /\ inflight' = [o \in Objs |-> 0]
    /\ attempts' = [o \in Objs |-> 0]
    /\ phase' = "booting"
    /\ UNCHANGED <<tasksFile, now, permVars, botVars, regVars, cacheVars, agentVars, mcpVars>>

(***************************************************************************)
(* MCP bridge (tools-api/main.py) and the dispatcher's MCP calls           *)
(***************************************************************************)
MaxMcpRequests == 2   \* add / refresh requests waiting for a fetch at a time

ServerNames == { <<"docker">>, <<"my">>, <<"my", "srv">> }

\* The tools that a server lists in answer to tools/list.
Catalogue(server) ==
    IF server = <<"docker">> THEN { <<"ps">> }
    ELSE IF server = <<"my">> THEN { <<"srv", "ps">>, <<"ls">> }
    ELSE { <<"ps">> }

\* f"mcp_{server_name}_{tool['name']}"
FullName(server, tool) == <<"mcp">> \o server \o tool

\* MCPToolsCache.add_tools
add_tools(cache, server_name, tools) ==
    LET new == {FullName(server_name, t) : t \in tools}
    IN  [n \in DOMAIN cache \cup new |->
            IF n \in new
            THEN [server |-> server_name,
                  original_name |->
                      CHOOSE t \in tools : FullName(server_name, t) = n]
            ELSE cache[n]]

\* MCPToolsCache.clear_server_tools
clear_server_tools(cache, server_name) ==
    [n \in {m \in DOMAIN cache : cache[m].server # server_name} |-> cache[n]]

InSeq(x, q) == \E i \in 1..Len(q) : q[i] = x

Without(q, x) == SelectSeq(q, LAMBDA y : y # x)

\* The cached tools whose server is not in the config.
Stale(cache, servers) ==
    {n \in DOMAIN cache : ~InSeq(cache[n].server, servers)}

\* POST /mcp/servers up to the await of fetch_mcp_tools.  (A pending request
\* remembers in stale the stale tools that were cached when it began.)
AddServer(name) ==
    /\ ~InSeq(name, mcpServers)
    /\ Cardinality(mcpPending) < MaxMcpRequests
    /\ mcpServers' = Append(mcpServers, name)
    /\ mcpPending' = mcpPending \cup {[op |-> "add", server |-> name,
                                       rest |-> <<>>, stale |-> {}]}
    /\ UNCHANGED <<mcpTools, mcpCall, permVars, botVars, regVars, cacheVars, agentVars, schedVars>>

\* DELETE /mcp/servers/{name}.
RemoveServer(name) ==
    /\ InSeq(name, mcpServers)
    /\ mcpServers' = Without(mcpServers, name)
    /\ mcpTools' = clear_server_tools(mcpTools, name)
    /\ UNCHANGED <<mcpPending, mcpCall, permVars, botVars, regVars, cacheVars, agentVars, schedVars>>

\* POST /mcp/servers/{name}/refresh up to the await of fetch_mcp_tools.
RefreshServer(name) ==
    /\ InSeq(name, mcpServers)
    /\ Cardinality(mcpPending) < MaxMcpRequests
    /\ mcpTools' = clear_server_tools(mcpTools, name)
    /\ mcpPending' = mcpPending \cup
           {[op |-> "refresh", server |-> name, rest |-> <<>>,
             stale |-> Stale(mcpTools, mcpServers)]}
    /\ UNCHANGED <<mcpServers, mcpCall, permVars, botVars, regVars, cacheVars, agentVars, schedVars>>

\* POST /mcp/refresh-all up to the first await of fetch_mcp_tools: the
\* servers of the config as loaded at the start are gone through in order.
RefreshAll ==
    /\ mcpServers # <<>>
    /\ Cardinality(mcpPending) < MaxMcpRequests
    /\ mcpTools' = clear_server_tools(mcpTools, Head(mcpServers))
    /\ mcpPending' = mcpPending \cup
           {[op |-> "refresh_all", server |-> Head(mcpServers),
             rest |-> Tail(mcpServers),
             stale |-> Stale(mcpTools, mcpServers)]}
    /\ UNCHANGED <<mcpServers, mcpCall, permVars, botVars, regVars, cacheVars, agentVars, schedVars>>

\* fetch_mcp_tools of request p has returned: the catalogue, or [] when the
\* fetch failed.  The handler goes on to its end or to its next fetch.
FetchReturns(p, ok) ==
    /\ p \in mcpPending
    /\ LET tools == IF ok THEN Catalogue(p.server) ELSE {}
           added == IF tools # {} THEN add_tools(mcpTools, p.server, tools)
                    ELSE mcpTools
       IN  IF p.rest = <<>>
           THEN /\ mcpTools' = added
                /\ mcpPending' = mcpPending \ {p}
           ELSE /\ mcpTools' = clear_server_tools(added, Head(p.rest))
                /\ mcpPending' = (mcpPending \ {p}) \cup
                       {[op |-> p.op, server |-> Head(p.rest),
                         rest |-> Tail(p.rest), stale |-> p.stale]}
    /\ UNCHANGED <<mcpServers, mcpCall, permVars, botVars, regVars, cacheVars, agentVars, schedVars>>

\* A refresh-all that clears every server but fetches only the servers that
\* had nothing cached.
RECURSIVE refresh_all_SkipsCached(_, _, _)
refresh_all_SkipsCached(cache, servers, reachable) ==
    IF servers = <<>> THEN cache
    ELSE LET name == Head(servers)
             cleared == clear_server_tools(cache, name)
             tools == IF name \in reachable /\ cleared = cache
                      THEN Catalogue(name) ELSE {}
             added == IF tools # {} THEN add_tools(cleared, name, tools)
                      ELSE cleared
         IN  refresh_all_SkipsCached(added, Tail(servers), reachable)

\* refresh_all_mcp_servers run from its first line to its last with no other
\* request in between: the cache it leaves, when fetch_mcp_tools returns the
\* catalogue of the servers in reachable and [] for the others.
RECURSIVE refresh_all_mcp_servers(_, _, _)
refresh_all_mcp_servers(cache, servers, reachable) ==
    IF servers = <<>> THEN cache
    ELSE LET name == Head(servers)
             cleared == clear_server_tools(cache, name)
             tools == IF name \in reachable THEN Catalogue(name) ELSE {}
             added == IF tools # {} THEN add_tools(cleared, name, tools)
                      ELSE cleared
         IN  refresh_all_mcp_servers(added, Tail(servers), reachable)

NoMcpCall ==
    [kind |-> "none", owner |-> <<>>, original_name |-> <<>>,
     server |-> <<>>, tool |-> <<>>]

\* execute_tool of the name that add_tools gives tool T of server S, in a
\* private bot session, and POST /mcp/call/{server_name}/{tool_name} of the
\* Tools API for the server and tool that the dispatcher has parsed.
CallMcpTool(S, T) ==
    /\ InSeq(S, mcpServers)
    /\ T \in Catalogue(S)
    /\ LET name == FullName(S, T)
           kind == DispatchKind(name, "private", "bot")
           route == MCPRoute(name)
       IN  mcpCall' =
               IF kind # "mcp"
               THEN [NoMcpCall EXCEPT !.kind = kind, !.owner = S,
                                      !.original_name = T]
               ELSE [kind |-> IF InSeq(route.server, mcpServers)
                              THEN "forwarded" ELSE "404",
                     owner |-> S, original_name |-> T,
                     server |-> route.server, tool |-> route.tool]
    /\ UNCHANGED <<mcpServers, mcpTools, mcpPending, permVars, botVars, regVars, cacheVars, agentVars,
                   schedVars>>

InitMcpVars ==
    /\ mcpServers = <<>>
    /\ mcpTools = << >>
    /\ mcpPending = {}
    /\ mcpCall = NoMcpCall

(***************************************************************************)
(* Pending questions of the bot adapter (bot/server.py, bot/handlers.py)   *)
(***************************************************************************)
QuestionIds == {1, 2}
Askers == {<<1, 1>>, <<2, 1>>}      \* (user_id, chat_id)
NoAnswer == "None"                  \* "answer": None
NoMsg == [user_id |-> 0, chat_id |-> 0, answers |-> 0]

\* The positions of the entries of question qid in the map.
EntryOf(pq, qid) == {i \in 1..Len(pq) : pq[i].question_id = qid}

\* pending_questions[question_id] = {...}: a new key goes to the end of the
\* dict, an old key keeps its place.
PutQuestion(pq, qid, user_id, chat_id) ==
    LET q == [question_id |-> qid, chat_id |-> chat_id, user_id |-> user_id,
              answer |-> NoAnswer]
    IN  IF EntryOf(pq, qid) = {}
        THEN Append(pq, q)
        ELSE [i \in 1..Len(pq) |-> IF pq[i].question_id = qid THEN q ELSE pq[i]]

\* del pending_questions[question_id]
DelQuestion(pq, qid) == SelectSeq(pq, LAMBDA q : q.question_id # qid)

\* POST /ask.  The entry is stored before the question is sent, so it stays
\* when bot.send_message raises and the request is answered with 500.  The
\* tool then polls (sent) or returns the error (not sent).
handle_ask_user(qid, user_id, chat_id, sent) ==
    /\ asker[qid] = "idle"
    /\ pending_questions' = PutQuestion(pending_questions, qid, user_id, chat_id)
    /\ asker' = [asker EXCEPT ![qid] = IF sent THEN "polling" ELSE "failed"]
    /\ UNCHANGED <<lastMsg, permVars, agentVars, schedVars, mcpVars, regVars, cacheVars>>

\* GET /answer/{question_id}, called by the tool while it waits: an entry
\* with an answer is removed and the answer returned.
handle_get_answer(qid) ==
    /\ asker[qid] = "polling"
    /\ EntryOf(pending_questions, qid) # {}
    /\ LET q == pending_questions[CHOOSE i \in EntryOf(pending_questions, qid) : TRUE]
       IN  IF q.answer = NoAnswer
           THEN UNCHANGED <<pending_questions, asker>>
           ELSE /\ pending_questions' = DelQuestion(pending_questions, qid)
                /\ asker' = [asker EXCEPT ![qid] = "answered"]
    /\ UNCHANGED <<lastMsg, permVars, agentVars, schedVars, mcpVars, regVars, cacheVars>>

\* The tool's timeout ends the wait; the adapter has no route that the tool
\* could call to withdraw the question.
AskTimeout(qid) ==
    /\ asker[qid] = "polling"
    /\ asker' = [asker EXCEPT ![qid] = "timedout"]
    /\ UNCHANGED <<pending_questions, lastMsg, permVars, agentVars, schedVars,
                   mcpVars, regVars, cacheVars>>

\* A variant that takes the first question of the user in the chat, answered
\* or not.
check_pending_answer_AnyEntry(pq, user_id, chat_id) ==
    LET mine == {i \in 1..Len(pq) : /\ pq[i].user_id = user_id
                                   /\ pq[i].chat_id = chat_id}
    IN  IF mine = {} THEN 0
        ELSE pq[CHOOSE i \in mine : \A j \in mine : i <= j].question_id

\* check_pending_answer: the number of the question that takes the text as
\* its answer, 0 when there is none (the function returns False).
check_pending_answer(pq, user_id, chat_id) ==
    LET open == {i \in 1..Len(pq) : /\ pq[i].user_id = user_id
                                   /\ pq[i].chat_id = chat_id
                                   /\ pq[i].answer = NoAnswer}
    IN  IF open = {} THEN 0
        ELSE pq[CHOOSE i \in open : \A j \in open : i <= j].question_id

\* handle_message from the check for a pending question on: the text of a
\* user's message becomes an answer, or goes to the agent.
handle_message(user_id, chat_id) ==
    /\ LET qid == check_pending_answer(pending_questions, user_id, chat_id)
       IN  /\ pending_questions' =
                  [i \in 1..Len(pending_questions) |->
                      IF pending_questions[i].question_id = qid
                      THEN [pending_questions[i] EXCEPT !.answer = "text"]
                      ELSE pending_questions[i]]
           /\ lastMsg' = [user_id |-> user_id, chat_id |-> chat_id,
                          answers |-> qid]
    /\ UNCHANGED <<asker, permVars, agentVars, schedVars, mcpVars, regVars, cacheVars>>

InitBotVars ==
    /\ pending_questions = << >>
    /\ asker = [q \in QuestionIds |-> "idle"]
    /\ lastMsg = NoMsg

(***************************************************************************)
(* The tool registry of tools-api and POST /tools/load                     *)
(***************************************************************************)
MaxNames == 2          \* names in one load request

\* The built-in tools of the registry; each is enabled by default.
get_builtin_tools == {N("read_file"), N("run_command")}

\* The lists of names that a load request may carry.
RequestedNames == get_builtin_tools \cup {McpDockerPs, N("nope")}
NameLists ==
    UNION {[1..n -> RequestedNames] : n \in 0..MaxNames}

NoLoad == [names |-> <<>>, tools |-> <<>>, not_found |-> <<>>, count |-> -1]

\* get_all_tools_with_state: the built-in tools and the cached MCP tools,
\* name -> enabled (the flag of the config file, True without one).
get_all_tools_with_state(config, cache) ==
    [n \in get_builtin_tools \cup DOMAIN cache |->
        IF n \in DOMAIN config THEN config[n] ELSE TRUE]

\* load_toolkit: the names of the definitions in "tools", and "not_found".
load_toolkit(names, tools) ==
    LET found(name) == name \in DOMAIN tools /\ tools[name]
        loaded == SelectSeq(names, found)
    IN  [names |-> names, tools |-> loaded,
         not_found |-> SelectSeq(names, LAMBDA name : ~found(name)),
         count |-> Len(loaded)]

\* POST /tools/load.
LoadToolkit(names) ==
    /\ loadResp' = load_toolkit(names,
                       get_all_tools_with_state(toolsConfig, mcpTools))
    /\ UNCHANGED <<toolsConfig, lastCall, permVars, agentVars, schedVars,
                   mcpVars, botVars, cacheVars>>

\* PUT /tools/{name}: 404 for a name that is not in the registry.
toggle_tool(name, enabled) ==
    /\ toolsConfig' =
           IF name \in DOMAIN get_all_tools_with_state(toolsConfig, mcpTools)
           THEN (name :> enabled) @@ toolsConfig
           ELSE toolsConfig
    /\ UNCHANGED <<loadResp, lastCall, permVars, agentVars, schedVars, mcpVars,
                   botVars, cacheVars>>

\* DELETE /tools/{name}.
reset_tool(name) ==
    /\ toolsConfig' = [n \in DOMAIN toolsConfig \ {name} |-> toolsConfig[n]]
    /\ UNCHANGED <<loadResp, lastCall, permVars, agentVars, schedVars, mcpVars,
                   botVars, cacheVars>>

NoCall == [name |-> <<>>, kind |-> "none"]

\* execute_tool(name, args, ctx) in a private chat of the bot: what the
\* dispatcher does with the call.
DispatchCall(name) ==
    /\ lastCall' = [name |-> name,
                    kind |-> DispatchKind(name, "private", "bot")]
    /\ UNCHANGED <<toolsConfig, loadResp, permVars, agentVars, schedVars,
                   mcpVars, botVars, cacheVars>>

InitRegVars ==
    /\ toolsConfig = << >>
    /\ loadResp = NoLoad
    /\ lastCall = NoCall

(***************************************************************************)
(* The cache of tool definitions (core/agent.py)                           *)
(***************************************************************************)
TOOLS_CACHE_TTL == 2   \* the 60 seconds, in units of the clock
MaxClock == 4          \* the clock stops here

\* f"{source}_{'lazy' if lazy_loading else 'full'}"
CacheKeys == {<<"bot", "lazy">>, <<"userbot", "lazy">>}

NoServe == [key |-> <<>>, from |-> "none", fetched |-> 0, now |-> 0]

\* get_tool_definitions(source, lazy_loading), with the answer of the Tools
\* API to the fetch it may make.  A list is named by the time of its fetch.
\* (The fetch ends within 5 seconds, less than a unit of the clock.)
GetToolDefinitions(key, api_ok) ==
    /\ IF key \in DOMAIN _tools_cache
          /\ cacheClock - _tools_cache_time < TOOLS_CACHE_TTL
       THEN /\ lastServe' = [key |-> key, from |-> "cache",
                             fetched |-> _tools_cache[key], now |-> cacheClock]
            /\ UNCHANGED <<_tools_cache, _tools_cache_time>>
       ELSE IF api_ok
       THEN /\ _tools_cache' = (key :> cacheClock) @@ _tools_cache
            /\ _tools_cache_time' = cacheClock
            /\ lastServe' = [key |-> key, from |-> "api",
                             fetched |-> cacheClock, now |-> cacheClock]
       ELSE /\ lastServe' = [key |-> key, from |-> "fallback",
                             fetched |-> cacheClock, now |-> cacheClock]
            /\ UNCHANGED <<_tools_cache, _tools_cache_time>>
    /\ UNCHANGED <<cacheClock, permVars, agentVars, schedVars, mcpVars,
                   botVars, regVars>>

\* Time passes.
CacheClockTick ==
    /\ cacheClock < MaxClock
    /\ cacheClock' = cacheClock + 1
    /\ UNCHANGED <<_tools_cache, _tools_cache_time, lastServe, permVars,
                   agentVars, schedVars, mcpVars, botVars, regVars>>

InitCacheVars ==
    /\ _tools_cache = << >>
    /\ _tools_cache_time = 0
    /\ cacheClock = 0
    /\ lastServe = NoServe

(***************************************************************************)
(* Specifications                                                          *)
(***************************************************************************)
InitAgentVars ==
    /\ sessions = [k \in SessionKeys |-> NoSession]
    /\ turn = [t \in Turns |-> IdleTurn]
    /\ dispatched = [t \in Turns |-> <<>>]
    /\ lockedAtStart = [t \in Turns |-> FALSE]
    /\ violations = [k \in SessionKeys |-> 0]
    /\ session_files = [d \in {Cwd(k) : k \in SessionKeys} |-> NoFile]

InitPermVars ==
    /\ permissions = DEFAULT_PERMISSIONS
    /\ permOp = NoPermOp

InitSchedVars ==
    /\ objects = [o \in Objs |-> Freed]
    /\ tasks = << >>
    /\ tasksFile = FileOf(<< >>)
    /\ now = 0
    /\ inflight = [o \in Objs |-> 0]
    /\ nextObj = 1
    /\ attempts = [o \in Objs |-> 0]
    /\ phase = "booting"

Init ==
    /\ InitPermVars /\ InitAgentVars /\ InitSchedVars /\ InitMcpVars
    /\ InitBotVars /\ InitRegVars /\ InitCacheVars

\* The agent: two run_agent coroutines, and /clear.
Next ==
    \/ \E t \in Turns, key \in SessionKeys : StartTurn(t, key)
    \/ \E t \in Turns : \E api_ok \in ApiOutcomes(t) : Prologue(t, api_ok)
    \/ \E t \in Turns : \E r \in LLMResponses(t) : LLMResponse(t, r)
    \/ \E t \in Turns, b \in AllBehaviours : ToolReturn(t, b)
    \/ \E key \in SessionKeys : Clear(key)

Spec == Init /\ [][Next]_vars

\* The permission engine under admin updates.
InitPerm ==
    /\ permissions \in LoadedPermissions
    /\ permOp = NoPermOp
    /\ InitAgentVars /\ InitSchedVars /\ InitMcpVars
    /\ InitBotVars /\ InitRegVars /\ InitCacheVars

NextPerm ==
    \/ \E st \in SessionTypes, mode \in {"", "allowlist", "denylist", "bogus"},
          tools \in ToolListMenu \cup {None} : UpdatePermission(st, mode, tools)
    \/ \E tool \in ProbeTools, c \in ProbeContexts : CheckTool(tool, c[1], c[2])
    \/ \E defs \in ProbeDefinitions, c \in ProbeContexts :
           FilterTools(defs, c[1], c[2])

SpecPerm == InitPerm /\ [][NextPerm]_vars

\* The scheduler service.
\* The scheduler with a disk that takes every write.
NextSched ==
    \/ \E data \in CreateMenu, r \in RandomHex : CreateTask(data, r, "written")
    \/ \E id \in TaskIds, data \in UpdateMenu : UpdateTask(id, data, "written")
    \/ \E id \in TaskIds, u \in {0} \cup Users : DeleteTask(id, u, "written")
    \/ \E id \in TaskIds : RunTaskNow(id)
    \/ Tick
    \/ \E o \in Objs, outcome \in {"200", "500", "raise"} :
           ExecuteTaskEnds(o, outcome, "written")
    \/ AdvanceTime
    \/ Restart

SpecSched == Init /\ [][NextSched]_vars

\* The scheduler with writes of TASKS_FILE that may fail.
NextSchedIO ==
    \/ \E data \in CreateMenu, r \in RandomHex, w \in SaveOutcomes :
           CreateTask(data, r, w)
    \/ \E id \in TaskIds, data \in UpdateMenu, w \in SaveOutcomes :
           UpdateTask(id, data, w)
    \/ \E id \in TaskIds, u \in {0, 2}, w \in SaveOutcomes :
           DeleteTask(id, u, w)
    \/ \E id \in TaskIds : RunTaskNow(id)
    \/ Tick
    \/ \E o \in Objs, outcome \in {"200", "raise"}, w \in SaveOutcomes :
           ExecuteTaskEnds(o, outcome, w)
    \/ AdvanceTime
    \/ Restart

SpecSchedIO == Init /\ [][NextSchedIO]_vars

\* The scheduler with a tasks file that may be damaged between two starts.
NextSchedLoad ==
    \/ \E data \in CreateMenu, r \in RandomHex : CreateTask(data, r, "written")
    \/ \E id \in TaskIds, u \in {0} \cup Users : DeleteTask(id, u, "written")
    \/ Tick
    \/ \E o \in Objs : ExecuteTaskEnds(o, "200", "written")
    \/ AdvanceTime
    \/ \E S \in SUBSET TaskIds : DamageFile(S)
    \/ Restart

SpecSchedLoad == Init /\ [][NextSchedLoad]_vars

\* The MCP bridge and the dispatcher's calls to it.
NextMcp ==
    \/ \E name \in ServerNames : AddServer(name)
    \/ \E name \in ServerNames : RemoveServer(name)
    \/ \E name \in ServerNames : RefreshServer(name)
    \/ RefreshAll
    \/ \E p \in mcpPending, ok \in BOOLEAN : FetchReturns(p, ok)
    \/ \E S \in ServerNames : \E T \in Catalogue(S) : CallMcpTool(S, T)

SpecMcp == Init /\ [][NextMcp]_vars

\* The bot adapter's pending questions: the ask_user tool on one side, the
\* users' messages on the other.
NextBot ==
    \/ \E qid \in QuestionIds, a \in Askers, sent \in BOOLEAN :
           handle_ask_user(qid, a[1], a[2], sent)
    \/ \E qid \in QuestionIds : handle_get_answer(qid)
    \/ \E qid \in QuestionIds : AskTimeout(qid)
    \/ \E a \in Askers : handle_message(a[1], a[2])

SpecBot == Init /\ [][NextBot]_vars

\* The tool polls while it waits and its timeout fires; a user need not
\* write at all.
SpecBotLive ==
    /\ SpecBot
    /\ \A qid \in QuestionIds : /\ WF_vars(handle_get_answer(qid))
                                /\ WF_vars(AskTimeout(qid))

\* The tool registry with a cache of MCP tools that is empty or holds the
\* tools of one server.
InitTools ==
    /\ InitPermVars /\ InitAgentVars /\ InitSchedVars /\ InitBotVars
    /\ InitRegVars /\ InitCacheVars
    /\ mcpServers \in {<< >>, << <<"docker">> >>}
    /\ mcpTools = IF mcpServers = << >> THEN << >>
                  ELSE add_tools(<< >>, <<"docker">>, Catalogue(<<"docker">>))
    /\ mcpPending = {}
    /\ mcpCall = NoMcpCall

NextTools ==
    \/ \E names \in NameLists : LoadToolkit(names)
    \/ \E name \in RequestedNames, enabled \in BOOLEAN :
           toggle_tool(name, enabled)
    \/ \E name \in RequestedNames : reset_tool(name)
    \/ \E name \in RequestedNames : DispatchCall(name)

SpecTools == InitTools /\ [][NextTools]_vars

\* The cache of tool definitions under requests for two keys.
NextCache ==
    \/ \E key \in CacheKeys, api_ok \in BOOLEAN : GetToolDefinitions(key, api_ok)
    \/ CacheClockTick

SpecCache == Init /\ [][NextCache]_vars

(***************************************************************************)
(* Properties of the agent loop (specification Spec)                       *)
(***************************************************************************)
PairedAt(m, i) ==
    LET k == Len(m[i].tool_calls)
    IN  /\ i + k <= Len(m)
        /\ \A j \in 1..k : /\ m[i + j].role = "tool"
                           /\ m[i + j].tool_call_id = m[i].tool_calls[j].id
        /\ (i + k + 1 <= Len(m) => m[i + k + 1].role # "tool")

Paired(m) ==
    \A i \in 1..Len(m) :
        (m[i].role = "assistant" /\ m[i].tool_calls # <<>>) => PairedAt(m, i)

InProgress(t) == turn[t].pc \in {"prologue", "llm", "tool"}

LastAssistant(m) == MaxOf({i \in 1..Len(m) : m[i].role = "assistant"})

\* C1: at every LLM call and at the end of a turn, however it ends, every
\* assistant message with k tool calls is directly followed by exactly k
\* tool-role messages carrying the ids of those calls in issue order.
C1_TranscriptPaired ==
    \A t \in Turns :
        turn[t].pc \in {"llm", "done"} => Paired(turn[t].messages)

\* C2: once the counter of a session is at the cap, a turn that starts on it
\* before a clear executes no tool and ends with the lock message.
C2_LockedUntilClear ==
    \A t \in Turns :
        lockedAtStart[t] =>
            /\ turn[t].pc # "tool"
            /\ (turn[t].pc = "done" => turn[t].ret = "lock")

\* C3: two turns on the same session are never in progress at the same time.
C3_NoOverlapOnSession ==
    \A a \in Turns, b \in Turns :
        (a # b /\ InProgress(a) /\ InProgress(b)) => turn[a].key # turn[b].key

\* C5: a call that the permission check denies reaches no executor and no
\* MCP bridge, gets a tool-role error message at its place in the transcript,
\* leaves the security counter alone, and the turn goes on with the next
\* call or the next LLM call.
C5_DeniedCallAnswered ==
    \A t \in Turns :
        /\ turn[t].pc = "tool" =>
               check_permission(turn[t].tool_calls[turn[t].idx].name,
                                turn[t].chat_type, turn[t].source).allowed
        /\ \A i \in 1..Len(dispatched[t]) :
               LET e == dispatched[t][i]
                   m == turn[t].messages
               IN  ~e.allowed =>
                       /\ e.kind = "denied"
                       /\ ~e.counted
                       /\ e.answered
                       /\ LastAssistant(m) + i <= Len(m)
                       /\ m[LastAssistant(m) + i] = ToolMsg(e.id, "Error")
                       /\ i = Len(dispatched[t]) =>
                              \/ turn[t].pc \in {"tool", "llm"}
                              \/ /\ turn[t].pc = "done"
                                 /\ turn[t].ret \in {"llm_error", "no_choices"}
                              \/ /\ turn[t].pc = "done"
                                 /\ turn[t].ret = "cap"
                                 /\ turn[t].iteration = MaxIterations

\* C5 witness: a denied call has been answered and the next call of the same
\* assistant message is being executed.
C5_Witness ==
    \E t \in Turns :
        /\ turn[t].pc = "tool"
        /\ Len(dispatched[t]) >= 1
        /\ ~dispatched[t][1].allowed
        /\ dispatched[t][1].answered

\* C6: the security counter of a session is the number of dispatched calls,
\* since the last clear, whose error text holds BLOCKED and a sensitive
\* token: it moves by one per such call, clear resets it, and failures,
\* timeouts, denials and privilege errors leave it alone.
C6_CounterCountsViolations ==
    \A key \in SessionKeys : sessions[key].blocked_count = violations[key]

\* C6 witness: a session whose counter is 1 after a violation, on which a
\* later executor failure has been dispatched without being counted.
C6_Witness ==
    \E t \in Turns :
        /\ turn[t].key \in SessionKeys
        /\ sessions[turn[t].key].blocked_count = 1
        /\ violations[turn[t].key] = 1
        /\ \E i \in 1..Len(dispatched[t]) :
               /\ dispatched[t][i].failed
               /\ dispatched[t][i].kind = "builtin"
               /\ ~dispatched[t][i].counted

\* C10: the tools named in metadata.loaded_tools of a result are in the tool
\* list of the next LLM call of the turn.
C10_LoadedToolsSent ==
    \A t \in Turns :
        turn[t].pc = "llm" =>
            \A i \in 1..Len(dispatched[t]) :
                \A j \in 1..Len(dispatched[t][i].loaded) :
                    \E d \in 1..Len(turn[t].tool_definitions) :
                        turn[t].tool_definitions[d] = dispatched[t][i].loaded[j]

(***************************************************************************)
(* Properties of the permission engine (specification SpecPerm)            *)
(***************************************************************************)
StatedEffectiveType(chat_type, source) ==
    IF source = "userbot" THEN "userbot"
    ELSE IF chat_type = "private" THEN "main"
    ELSE IF chat_type \in {"group", "supergroup"} THEN "group"
    ELSE IF chat_type = "sandbox" THEN "sandbox"
    ELSE "main"

StatedDecision(config, tool) ==
    IF config.mode = "allowlist"
    THEN config.tools.all \/ tool \in config.tools.names
    ELSE ~config.tools.all /\ tool \notin config.tools.names

\* C7 as stated: a check is decided by the mode and list configured for the
\* effective session type alone.
C7_CheckByConfiguredList ==
    permOp.op = "check" =>
        LET et == StatedEffectiveType(permOp.chat_type, permOp.source)
            config == permissions[et]
        IN  /\ permOp.result.session_type = et
            /\ config.mode \in {"allowlist", "denylist"} =>
                   permOp.result.allowed = StatedDecision(config, permOp.tool)

\* C7: a check is decided by the mode and list configured for the effective
\* session type (userbot for source userbot, else private to main, group and
\* supergroup to group, sandbox to sandbox, anything else to main), except
\* that under the effective type sandbox a tool of SANDBOX_DENIED is denied
\* whatever is configured.
C7_CheckByListExceptSandboxDenied ==
    permOp.op = "check" =>
        LET et == StatedEffectiveType(permOp.chat_type, permOp.source)
            config == permissions[et]
        IN  /\ permOp.result.session_type = et
            /\ config.mode \in {"allowlist", "denylist"} =>
                   permOp.result.allowed =
                       (/\ StatedDecision(config, permOp.tool)
                        /\ ~(et = "sandbox" /\ permOp.tool \in SANDBOX_DENIED))

\* C7 witness: a check of a SANDBOX_DENIED tool in a sandbox session whose
\* configuration is an allowlist of "*".
C7_Witness ==
    /\ permOp.op = "check"
    /\ permOp.chat_type = "sandbox" /\ permOp.source = "bot"
    /\ permOp.tool \in SANDBOX_DENIED
    /\ permissions["sandbox"].mode = "allowlist"
    /\ permissions["sandbox"].tools.all
    /\ ~permOp.result.allowed

\* C8: under the effective type sandbox every tool of SANDBOX_DENIED is denied
\* by check and removed by filter, whatever the configuration has become.
C8_SandboxDeniedAlways ==
    StatedEffectiveType(permOp.chat_type, permOp.source) = "sandbox" =>
        /\ (permOp.op = "check" /\ permOp.tool \in SANDBOX_DENIED) =>
               ~permOp.result.allowed
        /\ permOp.op = "filter" =>
               \A i \in 1..Len(permOp.kept) : permOp.kept[i] \notin SANDBOX_DENIED

\* C8 witness: a filter in a sandbox session configured, by an update, as an
\* allowlist of "*", over definitions that hold a SANDBOX_DENIED tool.
C8_Witness ==
    /\ permOp.op = "filter"
    /\ permOp.chat_type = "sandbox" /\ permOp.source = "bot"
    /\ \E i \in 1..Len(permOp.defs) : permOp.defs[i] \in SANDBOX_DENIED
    /\ permissions["sandbox"].mode = "allowlist"
    /\ permissions["sandbox"].tools.all
    /\ permOp.kept # <<>>

(***************************************************************************)
(* Properties of the scheduler (specification SpecSched)                   *)
(***************************************************************************)
\* C4: every execution attempt of a task, whatever the outcome of its
\* outbound call, is recorded: run_count is the number of attempts that have
\* ended, last_run is set after the first, and a task that has been
\* attempted is in the store only if it is recurring (it was rescheduled).
C4_EveryAttemptRecorded ==
    \A id \in DOMAIN tasks :
        LET o == tasks[id]
        IN  /\ objects[o].run_count = attempts[o]
            /\ attempts[o] > 0 =>
                   /\ objects[o].last_run # NoRun
                   /\ objects[o].recurring

(***************************************************************************)
(* Properties of the MCP bridge (specification SpecMcp)                    *)
(***************************************************************************)
\* C9: a call of the name mcp_S_T of tool T of a registered server S is
\* forwarded to server S with the original tool name T.
C9_ForwardedToOwner ==
    mcpCall.kind # "none" =>
        /\ mcpCall.kind = "forwarded"
        /\ mcpCall.server = mcpCall.owner
        /\ mcpCall.tool = mcpCall.original_name

(***************************************************************************)
(* Termination of a turn (specification Spec)                              *)
(***************************************************************************)
MaxCalls == 3   \* the longest list of tool calls in one LLM reply

\* How far a turn has come: it grows with every step and is bounded.
Rank(tr) ==
    IF tr.pc = "idle" THEN 0
    ELSE IF tr.pc = "prologue" THEN 1
    ELSE IF tr.pc = "done" THEN 2 + (MaxIterations + 1) * (MaxCalls + 1)
    ELSE 1 + tr.iteration * (MaxCalls + 1) + (IF tr.pc = "tool" THEN tr.idx ELSE 0)

RankGrows ==
    \A t \in Turns :
        turn'[t] # turn[t] => Rank(turn'[t]) > Rank(turn[t])

EndStates(S) ==
    \A t \in Turns :
        /\ turn[t].iteration <= MaxIterations
        /\ turn[t].pc = "done" => turn[t].ret \in S

LLMError == LLMReply("error", "", <<>>, FALSE)

\* The step in which call_llm hands back an error ends the turn there: no
\* message, no tool call and no history is added, and an ended turn never
\* moves again.
ErrorEndsTurnAtOnce ==
    \A t \in Turns :
        /\ LLMResponse(t, LLMError) =>
              /\ turn'[t] = [turn[t] EXCEPT !.pc = "done", !.ret = "llm_error"]
              /\ dispatched'[t] = dispatched[t]
              /\ sessions'[turn[t].key].history = sessions[turn[t].key].history
        /\ turn[t].pc = "done" =>
              /\ turn'[t] = turn[t]
              /\ dispatched'[t] = dispatched[t]

\* A turn that returned from inside the loop, without the epilogue.
Aborted(t) == turn[t].pc = "done" /\ turn[t].ret \notin {"final", "cap"}

\* C12 as stated: an LLM error ends the turn at once, and nothing but an LLM
\* error makes a turn return from inside its loop.
C12_OnlyLLMErrorAborts ==
    /\ [][ErrorEndsTurnAtOnce]_vars
    /\ [] (\A t \in Turns : Aborted(t) => turn[t].ret = "llm_error")

\* C12: an LLM error ends the turn at once, with no further LLM call and no
\* tool executed; the only other returns from inside the loop are an LLM
\* response without choices and the security lock.
C12_ErrorAbortsAtOnce ==
    /\ [][ErrorEndsTurnAtOnce]_vars
    /\ [] (\A t \in Turns :
              Aborted(t) => turn[t].ret \in {"llm_error", "no_choices", "lock"})

\* C12 witness: a turn ended by an LLM error in its second iteration, after
\* tools were executed in the first.
C12_Witness ==
    \E t \in Turns :
        /\ turn[t].pc = "done"
        /\ turn[t].ret = "llm_error"
        /\ turn[t].iteration = 2
        /\ \E i \in 1..Len(turn[t].messages) : turn[t].messages[i].role = "tool"

\* A step in which the awaited executor or MCP call of the current tool call
\* timed out or raised: execute_tool hands back an unsuccessful result, the
\* tool-role error message of that call is the next message, and the turn
\* goes on to the next tool call, the next LLM call or the end of the loop.
FailureStep(t, b) ==
    LET tr == turn[t]
        call == tr.tool_calls[tr.idx]
        at == Len(tr.messages) + 1
    IN  ToolReturn(t, b) =>
            /\ ~execute_tool(call.name, tr.chat_type, tr.source, b).success
            /\ Len(turn'[t].messages) >= at
            /\ turn'[t].messages[at] = ToolMsg(call.id, "Error")
            /\ \/ turn'[t].pc \in {"tool", "llm"}
               \/ turn'[t].pc = "done" /\ turn'[t].ret = "cap"

DueObjects ==
    {tasks[id] : id \in {i \in DOMAIN tasks :
                            /\ objects[tasks[i]].enabled
                            /\ objects[tasks[i]].execute_at <= now}}

\* C14: every pass of the tick loop, the first one after the start of the
\* process included, starts one execution for each task that is enabled and
\* has execute_at <= now, and none for any other task.
C14_TickStartsExactlyDue ==
    [][Tick => \A o \in Objs :
                   inflight'[o] = inflight[o] + (IF o \in DueObjects THEN 1 ELSE 0)
      ]_vars

\* C14 witness: the first pass after a start of the process has just run; it
\* started the task that was overdue when the process started and left the
\* disabled task alone, though its time has come too.
C14_Witness ==
    /\ phase = "first"
    /\ \E a \in DOMAIN tasks, b \in DOMAIN tasks :
          /\ objects[tasks[a]].enabled
          /\ objects[tasks[a]].execute_at < now
          /\ inflight[tasks[a]] = 1
          /\ ~objects[tasks[b]].enabled
          /\ objects[tasks[b]].execute_at <= now
          /\ inflight[tasks[b]] = 0

\* An execution is waiting for its outbound call, or one has raised.
Hindered ==
    \E o \in Objs : inflight[o] > 0 \/ attempts[o] > objects[o].run_count

\* The executions that a pass would start now fit the bounds of the model.
PassFits ==
    \A id \in get_due_tasks :
        CanStart(tasks[id], Cardinality(get_due_tasks))

\* C15: while executions are slow (still in flight) or have failed, the tick
\* loop can make its next pass, and that pass starts every due task.
C15_TickLoopUnhindered ==
    /\ [] (Hindered /\ PassFits => ENABLED Tick)
    /\ [][Tick /\ Hindered => \A o \in DueObjects : inflight'[o] = inflight[o] + 1
         ]_vars

\* C15 witness: a pass has just started the due task b while the execution of
\* task a, started earlier on request, is still in flight and an execution
\* of a has raised before.
C15_Witness ==
    /\ phase = "ticked"
    /\ \E a \in DOMAIN tasks, b \in DOMAIN tasks :
          /\ objects[tasks[a]].execute_at > now
          /\ inflight[tasks[a]] = 1
          /\ attempts[tasks[a]] > objects[tasks[a]].run_count
          /\ objects[tasks[b]].enabled
          /\ objects[tasks[b]].execute_at <= now
          /\ inflight[tasks[b]] = 1
          /\ attempts[tasks[b]] = 0

(***************************************************************************)
(* The end of an execution (specification SpecSched)                       *)
(***************************************************************************)
\* The execution of the stored task id ends with one of the outcomes outs:
\* a recurring task with an interval is rescheduled from now, in the store
\* and in the file; any other task leaves the store and the file.
CompletionSettles(outs) ==
    \A id \in DOMAIN tasks : \A outcome \in outs :
        LET o == tasks[id]
            task == objects[o]
        IN  ExecuteTaskEnds(o, outcome, "written") =>
                IF task.recurring /\ task.interval_minutes > 0
                THEN /\ id \in DOMAIN tasks'
                     /\ objects'[tasks'[id]].execute_at =
                            now + task.interval_minutes
                     /\ id \in DOMAIN tasksFile'.tasks
                     /\ tasksFile'.tasks[id].execute_at =
                            now + task.interval_minutes
                ELSE /\ id \notin DOMAIN tasks'
                     /\ id \notin DOMAIN tasksFile'.tasks

\* C16: when an execution of a task ends, by a response of any status or by
\* a transport error or timeout, a recurring task with interval_minutes > 0
\* gets execute_at = now + interval and is persisted, and any other task is
\* removed from the store and from the file.
C16_CompletionReschedulesOrRemoves ==
    [][CompletionSettles({"200", "500", "raise"})]_vars

\* The same for the executions whose outbound call returned a response.
AnsweredCompletionSettles == [][CompletionSettles({"200", "500"})]_vars

(***************************************************************************)
(* The tasks file (specification SpecSchedIO)                              *)
(***************************************************************************)
\* C17: when DELETE /tasks/{id} answers with success, the task is gone from
\* the store and from what the file holds.
C17_DeletedIsGone ==
    [][\A id \in DOMAIN tasks : \A u \in {0, objects[tasks[id]].user_id} :
          \A w \in SaveOutcomes :
              DeleteTask(id, u, w) =>
                  /\ id \notin DOMAIN tasks'
                  /\ id \notin DOMAIN _load(tasksFile')
      ]_vars

\* C18: TASKS_FILE always holds a complete snapshot, the one before or the
\* one after a write; no write leaves a part of a snapshot behind.
C18_WritesAreAtomic == ~tasksFile.torn

\* C19: after every step that changes the tasks of the store (create,
\* update, delete, reschedule or removal after an execution), the file
\* parses back to the tasks of the store.
C19_FileEqualsStore ==
    [][(/\ phase' # "booting"
        /\ StoreView(objects', tasks') # StoreView(objects, tasks))
          => tasksFile' = FileOf(StoreView(objects', tasks'))
      ]_vars

(***************************************************************************)
(* The MCP cache (specification SpecMcp)                                   *)
(***************************************************************************)
\* The refresh or refresh-all request p ends in this step.
RefreshEnds(p) ==
    /\ p.op \in {"refresh", "refresh_all"}
    /\ p.rest = <<>>
    /\ \E ok \in BOOLEAN : FetchReturns(p, ok)

\* C20: a cached tool whose server is not configured is stale, and a stale
\* tool is gone from the cache when the next refresh or refresh-all that
\* began after it became stale has ended.
C20_StaleToolsPruned ==
    [][\A p \in mcpPending :
          RefreshEnds(p) => p.stale \cap Stale(mcpTools', mcpServers') = {}
      ]_vars

(***************************************************************************)
(* The tasks of a user and task ids (specification SpecSched)              *)
(***************************************************************************)
\* A create for a user at the limit is answered with 400, and a step
\* answered with 400 leaves the store and the file as they were.
RefusedAtLimit ==
    /\ \A data \in CreateMenu, r \in RandomHex :
          (CreateTask(data, r, "written")
             /\ Cardinality(get_user_tasks(data.user_id)) >= MaxUserTasks)
          => phase' = "refused"
    /\ phase' = "refused" => UNCHANGED <<objects, tasks, tasksFile>>

\* C21: no user ever owns more than the allowed number of tasks, and a create
\* for a user who owns that many is rejected and leaves the store unchanged.
C21_TasksPerUserBounded ==
    /\ [] (\A u \in Users : Cardinality(get_user_tasks(u)) <= MaxUserTasks)
    /\ [][RefusedAtLimit]_vars

\* C21 witness: a create has just been rejected for a user who owns the
\* allowed number of tasks.
C21_Witness ==
    /\ phase = "refused"
    /\ \E u \in Users : Cardinality(get_user_tasks(u)) = MaxUserTasks

\* C22: the id that a create gives to its task is the id of no task in the
\* store, so that a create never replaces a task.
C22_CreateNeverReplaces ==
    [][\A data \in CreateMenu, r \in RandomHex :
          (CreateTask(data, r, "written") /\ ~AtLimit(data.user_id))
          => <<now, r>> \notin DOMAIN tasks
      ]_vars

(***************************************************************************)
(* The history of a session after a turn (specification Spec)              *)
(***************************************************************************)
\* C23: after every turn a session's history holds at most 2 * max_history
\* messages.
C23_HistoryLengthBounded ==
    \A key \in SessionKeys :
        Len(sessions[key].history) <= 2 * MaxHistory

\* C23 witness: two turns of one session have ended with a reply each, so
\* that the epilogue of the second had four messages to trim.
C23_Witness ==
    /\ \A t \in Turns : /\ turn[t].pc = "done"
                        /\ turn[t].ret = "final"
                        /\ turn[t].final_response # ""
    /\ turn["t1"].key = turn["t2"].key
    /\ Len(sessions[turn["t1"].key].history) = 2 * MaxHistory

\* C24: after every turn the serialized size of a session's history is at
\* most the char cap of the epilogue's trim, whatever its messages are.
C24_HistorySizeBounded ==
    \A key \in SessionKeys :
        TotalSize(sessions[key].history) <= HistoryMaxChars

(***************************************************************************)
(* Pending questions (specification SpecBotLive)                           *)
(***************************************************************************)
HasEntry(qid) == EntryOf(pending_questions, qid) # {}

\* A user's message does not become the answer of a question whose tool has
\* given up waiting.
NoLateAnswer ==
    \A a \in Askers :
        handle_message(a[1], a[2]) =>
            (lastMsg'.answers \in QuestionIds
                => asker[lastMsg'.answers] # "timedout")

\* C25: every entry of the pending-question map is removed in the end, and
\* a user message that arrives after the timeout of a question is not taken
\* as its answer.
C25_QuestionsAreCleared ==
    /\ \A qid \in QuestionIds : HasEntry(qid) ~> ~HasEntry(qid)
    /\ [][NoLateAnswer]_vars

(***************************************************************************)
(* Loading the tasks file (specification SpecSchedLoad)                    *)
(***************************************************************************)
Corrupt(file) == file.torn \/ file.invalid # {}

\* C26: a start on a tasks file that does not parse or that holds an invalid
\* record gives an empty store.
C26_CorruptFileGivesEmptyStore ==
    [][(Restart /\ Corrupt(tasksFile)) => tasks' = << >>]_vars

(***************************************************************************)
(* Refresh-all of the MCP bridge (specification SpecMcp)                   *)
(***************************************************************************)
\* C28: with catalogues that do not change (every fetch of a server returns
\* the same in both runs), a second refresh-all leaves the cache that the
\* first one left.
C28_RefreshAllIdempotent ==
    \A reachable \in SUBSET ServerNames :
        LET once == refresh_all_mcp_servers(mcpTools, mcpServers, reachable)
        IN  refresh_all_mcp_servers(once, mcpServers, reachable) = once

\* C28 witness: no request is waiting, the config holds two servers whose
\* tool names collide, tools are cached, and a refresh-all with one server
\* out of reach changes the cache.
C28_Witness ==
    /\ mcpPending = {}
    /\ InSeq(<<"my">>, mcpServers) /\ InSeq(<<"my", "srv">>, mcpServers)
    /\ mcpTools # << >>
    /\ refresh_all_mcp_servers(mcpTools, mcpServers, {<<"my", "srv">>})
           # mcpTools

(***************************************************************************)
(* Filtering twice (specification SpecPerm)                                *)
(***************************************************************************)
\* C29: filtering the result of a filter again, for the same chat type and
\* source and under the same permissions, returns that result.
C29_FilterIdempotent ==
    /\ permOp.op = "filter" =>
           filter_tool_definitions(permOp.kept, permOp.chat_type, permOp.source)
               = permOp.kept
    /\ \A defs \in ProbeDefinitions, c \in ProbeContexts :
           LET once == filter_tool_definitions(defs, c[1], c[2])
           IN  filter_tool_definitions(once, c[1], c[2]) = once

\* C29 witness: a filter has dropped some definitions of its list and kept
\* others, one of them twice.
C29_Witness ==
    /\ permOp.op = "filter"
    /\ permOp.kept # <<>>
    /\ Len(permOp.kept) < Len(permOp.defs)
    /\ \E i, j \in 1..Len(permOp.kept) : i # j /\ permOp.kept[i] = permOp.kept[j]

(***************************************************************************)
(* Loading tools by name (specification SpecTools)                         *)
(***************************************************************************)
NoDuplicates(q) == \A i, j \in 1..Len(q) : q[i] = q[j] => i = j

\* C27: the definitions that a load returns are of names that are in the
\* registry and enabled there, and no tool is returned twice.
C27_LoadReturnsEnabledOnce ==
    [][\A names \in NameLists :
          LoadToolkit(names) =>
              LET tools == get_all_tools_with_state(toolsConfig, mcpTools)
              IN  /\ \A i \in 1..Len(loadResp'.tools) :
                         /\ loadResp'.tools[i] \in DOMAIN tools
                         /\ tools[loadResp'.tools[i]]
                  /\ NoDuplicates(loadResp'.tools)
      ]_vars

(***************************************************************************)
(* Executions in flight (specification SpecSched)                          *)
(***************************************************************************)
\* C30: a pass of the tick loop starts no execution of a task that has an
\* execution in flight.
C30_NoSecondExecution ==
    [][Tick => \A o \in Objs : inflight[o] > 0 => inflight'[o] = inflight[o]
      ]_vars

(***************************************************************************)
(* The cache of tool definitions (specification SpecCache)                 *)
(***************************************************************************)
\* C31: a list that is served from the cache was fetched less than the TTL
\* before the request.
C31_CacheServesFreshOnly ==
    lastServe.from = "cache" =>
        lastServe.now - lastServe.fetched < TOOLS_CACHE_TTL

(***************************************************************************)
(* What the epilogue appends (specification Spec)                          *)
(***************************************************************************)
\* Turn t reaches the end of its epilogue in this step.
EpilogueEnds(t) ==
    /\ turn[t].pc # "done" /\ turn'[t].pc = "done"
    /\ turn'[t].ret \in {"final", "cap"}

Trimmed(h) == trim_history(h, MaxHistory * 2, HistoryMaxChars)

\* C32 as stated: the history after a turn that reaches the epilogue is the
\* trim of the history before it with one user entry and one assistant entry
\* appended.
C32_AppendsUserAndAssistant ==
    [][\A t \in Turns :
          EpilogueEnds(t) =>
              LET key == turn'[t].key IN
              sessions'[key].history =
                  Trimmed(sessions[key].history
                          \o <<UserMsg("Hello"),
                               AssistantMsg(turn'[t].final_response, <<>>)>>)
      ]_vars

\* C32, with the case of an empty reply: the epilogue appends one user entry,
\* followed by one assistant entry when the final response is not empty and
\* by nothing when it is empty, and then trims.
C32_AppendsUserThenReply ==
    [][\A t \in Turns :
          EpilogueEnds(t) =>
              LET key == turn'[t].key
                  fin == turn'[t].final_response
                  reply == IF fin = "" THEN << >>
                           ELSE <<AssistantMsg(fin, <<>>)>>
              IN  sessions'[key].history =
                      Trimmed(sessions[key].history
                              \o <<UserMsg("Hello")>> \o reply)
      ]_vars

\* C32 witness: a turn has gone through the epilogue with an empty reply
\* after another turn of the session, so that its history ends with an
\* assistant entry and a user entry.
C32_Witness ==
    \E t \in Turns :
        /\ turn[t].pc = "done" /\ turn[t].ret \in {"final", "cap"}
        /\ turn[t].final_response = ""
        /\ LET h == sessions[turn[t].key].history
           IN  /\ Len(h) = 2
               /\ h[1].role = "assistant" /\ h[2].role = "user"

(***************************************************************************)
(* Tasks of other users (specification SpecSched)                          *)
(***************************************************************************)
\* C33: a cancel or run request of the schedule_task tool that names a task
\* of another user leaves the store as it is and starts no execution.
C33_OnlyOwnTasks ==
    [][\A u \in Users, id \in TaskIds :
          (/\ id \in DOMAIN tasks
           /\ objects[tasks[id]].user_id # u
           /\ schedule_task_cancel(u, id) \/ schedule_task_run(u, id))
          => UNCHANGED <<objects, tasks, tasksFile, inflight>>
      ]_vars

(***************************************************************************)
(* Disabled tools and the dispatcher (specification SpecTools)             *)
(***************************************************************************)
\* C34: a call by name to a tool whose enabled state in the registry is
\* false does not run the tool.
C34_DisabledNeverRuns ==
    [][\A name \in RequestedNames :
          DispatchCall(name) =>
              LET tools == get_all_tools_with_state(toolsConfig, mcpTools)
              IN  (name \in DOMAIN tools /\ ~tools[name])
                      => lastCall'.kind \notin {"builtin", "mcp"}
      ]_vars

(***************************************************************************)
(* Filter and check (specification SpecPerm)                               *)
(***************************************************************************)
\* C35: for every tool name, chat type and source, the filter keeps a
\* definition of that name exactly when the check allows the name.
C35_FilterAgreesWithCheck ==
    \A tool \in ProbeTools, c \in ProbeContexts :
        (filter_tool_definitions(<<tool>>, c[1], c[2]) = <<tool>>)
            <=> check_permission(tool, c[1], c[2]).allowed

(***************************************************************************)
(* Snapshots of different sessions (specification Spec)                    *)
(***************************************************************************)
\* The snapshot of a session: the file save_session_to_file writes for it.
SnapshotOf(key) == session_files[Cwd(key)]

\* C36: a step in which a turn on one session goes through its epilogue
\* leaves the snapshot of every other session as it was.
C36_SnapshotsDoNotInterfere ==
    [][\A t \in Turns :
          EpilogueEnds(t) =>
              \A k \in SessionKeys \ {turn'[t].key} :
                  SnapshotOf(k)' = SnapshotOf(k)
      ]_vars

(***************************************************************************)
(* Turns that end early (specification Spec)                               *)
(***************************************************************************)
\* C39: a step of a turn that is not the end of its epilogue changes neither
\* the history of any session nor any snapshot file; a turn that ends on an
\* LLM error, on a response without choices or on the security lock has no
\* other steps, so it leaves both as they were.
C39_EarlyEndLeavesHistory ==
    [][\A t \in Turns :
          (turn'[t] # turn[t] /\ ~EpilogueEnds(t)) =>
              /\ \A k \in SessionKeys :
                     sessions'[k].history = sessions[k].history
              /\ session_files' = session_files
      ]_vars

\* C39 witness: a turn has ended on the security lock, on a session that an
\* earlier turn left with a history and a snapshot.
C39_Witness ==
    \E t \in Turns :
        /\ turn[t].pc = "done" /\ turn[t].ret = "lock"
        /\ sessions[turn[t].key].history # <<>>
        /\ SnapshotOf(turn[t].key).exists
        /\ SnapshotOf(turn[t].key).history =
               display_history(sessions[turn[t].key].history)

(***************************************************************************)
(* Whose cache entries a request changes (specification SpecMcp)           *)
(***************************************************************************)
\* The cache entries that belong to a server.
ServerTools(cache, server_name) ==
    [n \in {m \in DOMAIN cache : cache[m].server = server_name} |-> cache[n]]

\* C37: a refresh of server S whose fetch fails leaves the cached tools of S
\* as they were: neither the handler up to its fetch nor the return of the
\* failed fetch changes an entry of S.
C37_FailedRefreshKeepsTools ==
    [][\A S \in ServerNames :
          (\/ RefreshServer(S)
           \/ \E p \in mcpPending :
                  /\ p.op = "refresh" /\ p.server = S
                  /\ FetchReturns(p, FALSE))
          => ServerTools(mcpTools', S) = ServerTools(mcpTools, S)
      ]_vars

\* C38: a step of an add or a refresh of server S leaves every cache entry
\* that belongs to another server in the cache, unchanged.
C38_OnlyOwnEntriesChange ==
    [][\A S \in ServerNames :
          (\/ AddServer(S)
           \/ RefreshServer(S)
           \/ \E p \in mcpPending, ok \in BOOLEAN :
                  /\ p.op \in {"add", "refresh"} /\ p.server = S
                  /\ FetchReturns(p, ok))
          => \A n \in DOMAIN mcpTools :
                 mcpTools[n].server # S =>
                     n \in DOMAIN mcpTools' /\ mcpTools'[n] = mcpTools[n]
      ]_vars

(***************************************************************************)
(* Answers to pending questions (specification SpecBot)                    *)
(***************************************************************************)
\* A message of user_id in chat_id is handled in this step: at most one entry
\* changes, it is one of that user in that chat that had no answer, it gets
\* the text as its answer, and it is the question the function reports.
MessageAnswersOne(user_id, chat_id) ==
    LET pq == pending_questions
        changed == {i \in 1..Len(pq) : pending_questions'[i] # pq[i]}
    IN  /\ Len(pending_questions') = Len(pq)
        /\ Cardinality(changed) <= 1
        /\ \A i \in changed :
               /\ pq[i].user_id = user_id /\ pq[i].chat_id = chat_id
               /\ pq[i].answer = NoAnswer
               /\ pending_questions'[i] = [pq[i] EXCEPT !.answer = "text"]
        /\ lastMsg'.answers # 0 =>
               \E i \in changed : pq[i].question_id = lastMsg'.answers

\* The answer endpoint returns the answer of question qid in this step: the
\* entry had an answer, it is removed, and the other entries stay.
AnswerReturnedOnce(qid) ==
    /\ \A i \in EntryOf(pending_questions, qid) :
           pending_questions[i].answer # NoAnswer
    /\ EntryOf(pending_questions', qid) = {}
    /\ pending_questions' = DelQuestion(pending_questions, qid)

\* C40: a user message becomes the answer of at most one pending question,
\* one of the same user and chat that had no answer; the answer endpoint
\* returns a recorded answer by removing the entry, and no question has two
\* entries, so the same answer is not returned again.
C40_AnswerRecordedOnce ==
    /\ [][/\ \A a \in Askers :
               handle_message(a[1], a[2]) => MessageAnswersOne(a[1], a[2])
          /\ \A qid \in QuestionIds :
               (handle_get_answer(qid) /\ asker'[qid] = "answered")
                   => AnswerReturnedOnce(qid)
         ]_vars
    /\ [] (\A qid \in QuestionIds :
              Cardinality(EntryOf(pending_questions, qid)) <= 1)

\* C40 witness: a user with two open questions in one chat has sent one
\* message; the first question took it and its answer has been fetched, the
\* second question is still without an answer.
C40_Witness ==
    /\ lastMsg.answers # 0
    /\ asker[lastMsg.answers] = "answered"
    /\ EntryOf(pending_questions, lastMsg.answers) = {}
    /\ \E i \in 1..Len(pending_questions) :
           /\ pending_questions[i].user_id = lastMsg.user_id
           /\ pending_questions[i].chat_id = lastMsg.chat_id
           /\ pending_questions[i].answer = NoAnswer
====
